---- MODULE Spec2Model ----
(***************************************************************************)
(* Radboud FUS measurement kit (SonoRover One): the grid scan of the       *)
(* acquisition pipeline.  Three entry points of the repository are         *)
(* modelled: backend Acquisition.acquire_sequence (_scan_grid), the legacy *)
(* acquire (Acquisition.scan_grid) and the legacy Acquisition.scan_only,   *)
(* which walks the grid with a Scan_Iter.                                  *)
(*                                                                         *)
(* Units: coordinates are whole millimetres, so round(coord, 3) of         *)
(* _save_data leaves them as they are.  The digitizer samples 4 points per *)
(* period of the operating frequency, so the reference e^(iwt) takes the   *)
(* values 1, i, -1, -i and phasors are Gaussian integers.                  *)
(***************************************************************************)
EXTENDS Integers, Sequences, FiniteSets, TLC

(***************************************************************************)
(* Bounds of the model.                                                    *)
(***************************************************************************)
MaxDim == 3
MaxPts == 4

(***************************************************************************)
(* Values the environment supplies.                                        *)
(***************************************************************************)
sample_count == 4
rangeXYZ == <<4, 4, 4>>
coord_zero == <<-2, -2, -2>>
Waveforms == {<<2, 0, -2, 0>>, <<0, 1, 0, -1>>}
Header ==
    [names |-> <<"Measurement number", "Cluster number", "Indices number",
                 "X-coordinate [mm]", "Y-coordinate [mm]", "Z-coordinate [mm]",
                 "Row number", "Column number", "Slice number",
                 "Absolute X-coordinate [mm]", "Absolute Y-coordinate [mm]",
                 "Absolute Z-coordinate [mm]">>]

Abs(x) == IF x < 0 THEN -x ELSE x
Min(a, b) == IF a < b THEN a ELSE b
RECURSIVE GCD(_, _)
GCD(a, b) == IF b = 0 THEN a ELSE GCD(b, a % b)
VAdd(u, v) == <<u[1] + v[1], u[2] + v[2], u[3] + v[3]>>
VSub(u, v) == <<u[1] - v[1], u[2] - v[2], u[3] - v[3]>>
VMul(n, v) == <<n * v[1], n * v[2], n * v[3]>>

(***************************************************************************)
(* Scan_Iter                                                               *)
(***************************************************************************)
Scan_Iter(ns, nr, nc, scan) ==
    [ns |-> ns, nr |-> nr, nc |-> nc, N |-> ns * nr * nc, cur_index |-> 0,
     direct |-> (scan = "Dir")]

\* mutant: the row is taken with the number of rows as divisor
dir_i2nsnrnc_nr(self, i) ==
    LET nrnc == self.nr * self.nc
        sl == i \div nrnc
        rc == i % nrnc
        row == rc \div self.nr
        col == rc % self.nc
    IN  <<sl, row, col>>

dir_i2nsnrnc(self, i) ==
    LET nrnc == self.nr * self.nc
        sl == i \div nrnc
        rc == i % nrnc
        row == rc \div self.nc
        col == rc % self.nc
    IN  <<sl, row, col>>

\* mutant: the odd rows ascend and the even rows are reversed
alt_i2nsnrnc_odd(self, i) ==
    LET nrnc == self.nr * self.nc
        sl == i \div nrnc
        rc == i % nrnc
        row == rc \div self.nc
        rem == rc % self.nc
        col == IF row % 2 = 1 THEN rem ELSE self.nc - rem - 1
    IN  <<sl, row, col>>

alt_i2nsnrnc(self, i) ==
    LET nrnc == self.nr * self.nc
        sl == i \div nrnc
        rc == i % nrnc
        row == rc \div self.nc
        rem == rc % self.nc
        col == IF row % 2 = 0 THEN rem ELSE self.nc - rem - 1
    IN  <<sl, row, col>>

(***************************************************************************)
(* Coordinate tables (the files a sequence's path_coord_excel may name).   *)
(***************************************************************************)
TRow(m, xyz, rw, cl, sl) ==
    [measur_nr |-> m, cluster_nr |-> 1, indices_nr |-> m, xyz |-> xyz,
     row_nr |-> rw, col_nr |-> cl, sl_nr |-> sl]

ExcelFiles ==
    [p \in {"axis.xlsx", "scan.csv", "reversed.xlsx", "sparse.xlsx"} |->
        CASE p = "axis.xlsx" ->
                <<TRow(1, <<0, 0, 0>>, 1, 1, 1), TRow(2, <<0, 0, 1>>, 1, 2, 1),
                  TRow(3, <<0, 0, 2>>, 1, 3, 1)>>
          [] p = "scan.csv" ->
                <<TRow(1, <<0, 0, 0>>, 0, 0, 0), TRow(2, <<1, 0, 0>>, 0, 1, 0),
                  TRow(3, <<2, 0, 0>>, 0, 2, 0)>>
          [] p = "reversed.xlsx" ->
                <<TRow(1, <<1, 0, 0>>, 1, 2, 1), TRow(2, <<0, 0, 0>>, 1, 1, 1)>>
          [] p = "sparse.xlsx" ->
                <<TRow(1, <<0, 0, 0>>, 1, 1, 1), TRow(2, <<1, 1, 0>>, 2, 2, 1)>>]

ExcelPaths == DOMAIN ExcelFiles \cup {"missing.xlsx"}

RECURSIVE ColMax(_, _, _)
ColMax(table, col, n) ==
    IF n = 1 THEN table[1][col]
    ELSE LET m == ColMax(table, col, n - 1)
         IN  IF table[n][col] > m THEN table[n][col] ELSE m

(***************************************************************************)
(* Sequences the caller may hand over.                                     *)
(***************************************************************************)
Dims == {d \in (0..MaxDim) \X (0..MaxDim) \X (0..MaxDim) : d[1] * d[2] * d[3] <= MaxPts}

GridSequences ==
    [use_coord_excel : {FALSE}, path_coord_excel : {"none"},
     coord_start : {<<-3, -3, -3>>, <<-1, -1, -1>>},
     nslices_nrow_ncol : Dims,
     vect_sl : {<<0, 0, 1>>}, vect_row : {<<0, 1, 0>>}, vect_col : {<<1, 0, 0>>}]

ExcelSequences ==
    [use_coord_excel : {TRUE}, path_coord_excel : ExcelPaths,
     coord_start : {<<0, 0, 0>>},
     nslices_nrow_ncol : {<<0, 0, 0>>},
     vect_sl : {<<0, 0, 0>>}, vect_row : {<<0, 0, 0>>}, vect_col : {<<0, 0, 0>>}]

SequenceList == GridSequences \cup ExcelSequences

\* check_scan takes no waveforms, so it can walk every grid up to MaxDim
IterSequences ==
    [use_coord_excel : {FALSE}, path_coord_excel : {"none"},
     coord_start : {<<-3, -3, -3>>},
     nslices_nrow_ncol : (0..MaxDim) \X (0..MaxDim) \X (0..MaxDim),
     vect_sl : {<<0, 0, 1>>}, vect_row : {<<0, 1, 0>>}, vect_col : {<<1, 0, 0>>}]
    \cup ExcelSequences

VARIABLES
    entry,          \* the entry point that is running
    pc,             \* its position
    abort,          \* the exception that ended it, "" if none
    sequence,       \* self.sequence / self.protocol
    grid_param,     \* nsl, nrow, ncol, coord_excel_data
    loop,           \* i, j, k, counter of the scan loops
    grid,           \* the Scan_Iter of scan_only
    point,          \* the row of the current point and its destination
    attempt,        \* _acquire_data's attempt
    frames,         \* frames of _acquire_data that have still to read
    signal_a,       \* self.signal_a
    cplx_data,      \* the (2, nsl, nrow, ncol) array, flat, C order
    dest_xyz_list,  \* destinations of the measured points
    outputRAW,      \* the raw log file
    outputCoord,    \* the coordinate CSV file
    outputACD,      \* the field-volume file, <<"none">> until written
    current_position, \* MotorsXYZ._current_position
    moves,          \* history: motion commands sent to the controller
    ops,            \* history: device operations at the current point
    waits,          \* history: results of waitAcquisition at the current point
    readlog,        \* history: waveforms read at the current point
    written,        \* history: cells of cplx_data written
    yielded         \* history: triples the Scan_Iter returned

VARIABLES
    myscan,         \* a Scan_Iter object that for loops are run over
    scan_state,     \* "idle", "made", "looping" or "stopped" (StopIteration was raised)
    passes          \* history: the triples each for loop over myscan was given

itervars == <<myscan, scan_state, passes>>

VARIABLES
    ds_sent         \* history: the sequences sent to the driving system

VARIABLES
    disk,           \* the files of one base name that exist: <<counter, extension>>
    run,            \* the run in progress: implementation, selected name, phase
    selections      \* history: what every call of check_file found and selected

filevars == <<disk, run, selections>>

VARIABLES
    align_pc,       \* position in acoustical_alignment
    ac_align,       \* sequence.ac_align and the focus, coord_zero it is run with
    beam,           \* the beam the hydrophone is in: centre, peak and floor of its profile
    plane,          \* idx of the for loop of _perform_alignment (1-based)
    found_x_coords, \* the x found so far in _search_alignment
    found_y_coords, \* the y found so far in _search_alignment
    line,           \* line_length, line_step_size and grid_param["ncol"]
    middle_points,  \* the centre found in each plane
    acoustical_axis,\* <<>> while the attribute is not set, else <<origin, direction>>
    axis_file,      \* <<>> or what was written to _acoustical_axis.xlsx
    align_abort,    \* "" or the exception that ended the alignment
    line_scans      \* history: the line scans made

alignvars == <<align_pc, ac_align, beam, plane, found_x_coords, found_y_coords, line,
               middle_points, acoustical_axis, axis_file, align_abort, line_scans>>

VARIABLES
    proces,         \* proces_param of an acquisition with a window of its own
    pico_sampling_freq, \* samples per microsecond
    col_pc,         \* "idle", "init", "grid" or "scan"
    windows         \* history: the column and the window each point was processed with

winvars == <<proces, pico_sampling_freq, col_pc, windows>>

VARIABLES
    wave,           \* a sampled sine: amplitude, phase (as a direction) and periods
    signal_w,       \* signal_a of the acquisition that holds this sine
    phasor_pc,      \* "idle", "read" or "done"
    ampl_phase      \* <<>> or what _process_data returned for signal_w

phvars == <<wave, signal_w, phasor_pc, ampl_phase>>

VARIABLES
    seq_row,        \* the grid parameters of a row of the protocol file
    sequence_list   \* the sequences generate_sequence_list made of it

boxvars == <<seq_row, sequence_list>>

VARIABLES
    equipment,      \* self.equipment: what ds, scope and motors are at the moment
    main_cfg,       \* which program runs and whether the manufacturer is a known one
    main_pc,        \* "idle", "init", "try", "finally" or "ended"
    main_steps,     \* the equipment still to initialise, in the order of the code
    main_todo,      \* the sequences of sequence_list still to acquire
    main_exc,       \* "" or the exception that is propagating
    closed          \* "no", or how close_all ended: "returned" or "raised"

equipvars == <<equipment, main_cfg, main_pc, main_steps, main_todo, main_exc, closed>>

morevars == <<phvars, boxvars, equipvars>>

dsvars == <<ds_sent>>
restvars == <<itervars, filevars, alignvars, winvars, morevars>>
extvars == <<dsvars, restvars>>

scanvars == <<entry, pc, abort, sequence, grid_param, loop, grid, point, attempt, frames,
          signal_a, cplx_data, dest_xyz_list, outputRAW, outputCoord, outputACD,
          current_position, moves, ops, waits, readlog, written, yielded>>

vars == <<scanvars, extvars>>

NoPoint == [vol_orien |-> <<0, 0, 0>>, relat_xyz |-> <<0, 0, 0>>,
            plane_orien |-> <<0, 0, 0>>, dest_xyz |-> <<0, 0, 0>>]
NoSequence == [use_coord_excel |-> FALSE, path_coord_excel |-> "none",
               coord_start |-> <<0, 0, 0>>, nslices_nrow_ncol |-> <<0, 0, 0>>,
               vect_sl |-> <<0, 0, 0>>, vect_row |-> <<0, 0, 0>>, vect_col |-> <<0, 0, 0>>]

ScanInit ==
    /\ entry = "none"
    /\ pc = "idle"
    /\ abort = ""
    /\ sequence = NoSequence
    /\ grid_param = [nsl |-> 0, nrow |-> 0, ncol |-> 0, coord_excel_data |-> <<>>]
    /\ loop = [i |-> 0, j |-> 0, k |-> 0, counter |-> 0]
    /\ grid = Scan_Iter(0, 0, 0, "Dir")
    /\ point = NoPoint
    /\ attempt = 0
    /\ frames = 0
    /\ signal_a = <<>>
    /\ cplx_data = <<>>
    /\ dest_xyz_list = <<>>
    /\ outputRAW = <<>>
    /\ outputCoord = <<>>
    /\ outputACD = <<"none">>
    /\ current_position = <<0, 0, 0>>
    /\ moves = <<>>
    /\ ops = <<>>
    /\ waits = <<>>
    /\ readlog = <<>>
    /\ written = <<>>
    /\ yielded = <<>>

IterIdle ==
    /\ myscan = Scan_Iter(0, 0, 0, "Dir")
    /\ scan_state = "idle"
    /\ passes = <<>>

FilesIdle ==
    /\ disk = {}
    /\ run = [impl |-> "backend", name |-> -1, phase |-> "idle"]
    /\ selections = <<>>

NoAlign == [init_line_len |-> 0, init_line_step |-> 0, init_threshold |-> 0,
            reduction_factor |-> <<1, 1>>, max_red_iter |-> 0, create_axis_file |-> FALSE,
            distance_from_foc |-> 0, axis_length |-> 0, axis_stepsize |-> 0,
            focus |-> 0, coord_zero |-> <<0, 0, 0>>]

AlignIdle ==
    /\ align_pc = "idle"
    /\ ac_align = NoAlign
    /\ beam = [centre |-> <<0, 0>>, peak |-> 0, floor |-> 0]
    /\ plane = 0
    /\ found_x_coords = <<>>
    /\ found_y_coords = <<>>
    /\ line = [length |-> 0, step_size |-> 0, ncol |-> 0]
    /\ middle_points = <<>>
    /\ acoustical_axis = <<>>
    /\ axis_file = <<>>
    /\ align_abort = ""
    /\ line_scans = <<>>

WindowIdle ==
    /\ proces = [adjust |-> 0, row_pixel_us |-> 0, begus |-> 0, endus |-> 0,
                 begn |-> 0, endn |-> 0, npoints |-> 0]
    /\ pico_sampling_freq = 0
    /\ col_pc = "idle"
    /\ windows = <<>>

PhasorIdle ==
    /\ wave = [ampl |-> 0, phi |-> <<1, 0>>, periods |-> 0]
    /\ signal_w = <<>>
    /\ phasor_pc = "idle"
    /\ ampl_phase = <<>>

NoRow == [directions |-> <<"+z", "+y", "+x">>, dimensions |-> <<0, 0, 0, 0, 0, 0>>,
          step_sizes |-> <<0, 0, 0>>]

BoxIdle ==
    /\ seq_row = NoRow
    /\ sequence_list = <<>>

EquipIdle ==
    /\ equipment = [ds |-> "None", scope |-> "None", motors |-> "None"]
    /\ main_cfg = [program |-> "main", manufact_known |-> TRUE]
    /\ main_pc = "idle"
    /\ main_steps = <<>>
    /\ main_todo = 0
    /\ main_exc = ""
    /\ closed = "no"

MoreIdle == PhasorIdle /\ BoxIdle /\ EquipIdle

Init ==
    /\ ScanInit /\ ds_sent = <<>> /\ IterIdle /\ FilesIdle /\ AlignIdle /\ WindowIdle
    /\ MoreIdle

(***************************************************************************)
(* Helpers of the scan.                                                    *)
(***************************************************************************)
Zeros(n) == [x \in 1..n |-> IF 2 * x <= n THEN <<0, 1>> ELSE <<1, 0>>]

\* position of cplx_data[c, i, j, k] in the flat array (1-based)
Flat(gp, c, i, j, k) == ((c * gp.nsl + i) * gp.nrow + j) * gp.ncol + k + 1

\* mutant: the loop body is entered before the ranges are looked at
LoopDoneAfterBody(gp, lp) == lp.i >= gp.nsl

\* for i in range(nsl): for j in range(nrow): for k in range(ncol)
LoopDone(gp, lp) == gp.nsl * gp.nrow * gp.ncol = 0 \/ lp.i >= gp.nsl

\* mutant: the last column of every row is left out
LoopNextSkipsColumn(gp, lp) ==
    IF lp.k + 2 < gp.ncol
    THEN [lp EXCEPT !.k = lp.k + 1, !.counter = lp.counter + 1]
    ELSE IF lp.j + 1 < gp.nrow
         THEN [lp EXCEPT !.j = lp.j + 1, !.k = 0, !.counter = lp.counter + 1]
         ELSE [lp EXCEPT !.i = lp.i + 1, !.j = 0, !.k = 0, !.counter = lp.counter + 1]

LoopNext(gp, lp) ==
    IF lp.k + 1 < gp.ncol
    THEN [lp EXCEPT !.k = lp.k + 1, !.counter = lp.counter + 1]
    ELSE IF lp.j + 1 < gp.nrow
         THEN [lp EXCEPT !.j = lp.j + 1, !.k = 0, !.counter = lp.counter + 1]
         ELSE [lp EXCEPT !.i = lp.i + 1, !.j = 0, !.k = 0, !.counter = lp.counter + 1]

Raise(e) == pc' = "aborted" /\ abort' = e

(***************************************************************************)
(* _init_processing / _process_data                                        *)
(***************************************************************************)
proces_param ==
    [adjust |-> 0, begus |-> 0, begn |-> 0, endn |-> sample_count,
     npoints |-> sample_count]

\* e^(iwt) at sample n (0-based), 4 samples per period: <<cos, sin>>
eiwt(n) ==
    CASE n % 4 = 0 -> <<1, 0>>
      [] n % 4 = 1 -> <<0, 1>>
      [] n % 4 = 2 -> <<-1, 0>>
      [] n % 4 = 3 -> <<0, -1>>

\* the indices a Python slice [beg:end] selects of a sequence of length len
PySliceIdx(beg, end, len) ==
    LET b == IF beg < 0 THEN (IF beg + len < 0 THEN 0 ELSE beg + len) ELSE Min(beg, len)
        e == IF end < 0 THEN (IF end + len < 0 THEN 0 ELSE end + len) ELSE Min(end, len)
    IN  {n \in 0..(len - 1) : b <= n /\ n < e}

RECURSIVE Dot(_, _, _)
Dot(sig, idx, part) ==
    IF idx = {} THEN 0
    ELSE LET n == CHOOSE x \in idx : TRUE
         IN  sig[n + 1] * eiwt(n)[part] + Dot(sig, idx \ {n}, part)

\* phase as the primitive direction of the phasor, 0.0 as <<1, 0>>
Phase(re, im) ==
    IF re = 0 /\ im = 0 THEN <<1, 0>>
    ELSE LET g == GCD(Abs(re), Abs(im)) IN <<re \div g, im \div g>>

\* returns <<ampl_a, phase_a>>; ampl_a = 2|phasor|/npoints is kept as the
\* fraction <<4|phasor|^2, npoints^2>> of its square
_process_data(sig, beg, end) ==
    LET end2 == IF end = 0 THEN sample_count ELSE end
        npoints == end2 - beg
        idx == PySliceIdx(beg, end2, Len(sig))
        re == Dot(sig, idx, 1)
        im == Dot(sig, idx, 2)
    IN  <<(<<4 * (re * re + im * im), npoints * npoints>>), Phase(re, im)>>

(***************************************************************************)
(* _save_data: one row appended to the coordinate CSV.                     *)
(***************************************************************************)
round3(v) == v

\* mutant: the file is opened 'w' instead of 'a'
_save_data_truncating(file, vol_orien, relat_xyz, plane_orien, dest_xyz) ==
    <<[vol_orien |-> vol_orien, relat_xyz |-> round3(relat_xyz),
       plane_orien |-> plane_orien, dest_xyz |-> round3(dest_xyz)]>>

_save_data(file, vol_orien, relat_xyz, plane_orien, dest_xyz) ==
    Append(file, [vol_orien |-> vol_orien, relat_xyz |-> round3(relat_xyz),
                  plane_orien |-> plane_orien, dest_xyz |-> round3(dest_xyz)])

(***************************************************************************)
(* _check_file / _prepare_output_files: the header row is appended.        *)
(***************************************************************************)
_prepare_output_files(file) == Append(file, Header)

(***************************************************************************)
(* _init_grid / _init_grid_excel                                           *)
(***************************************************************************)
_init_grid(gp, seq) ==
    [gp EXCEPT !.nsl = seq.nslices_nrow_ncol[1], !.nrow = seq.nslices_nrow_ncol[2],
               !.ncol = seq.nslices_nrow_ncol[3]]

_init_grid_excel(gp, seq) ==
    IF seq.path_coord_excel \in DOMAIN ExcelFiles
    THEN LET data == ExcelFiles[seq.path_coord_excel]
         IN  [nsl |-> ColMax(data, "sl_nr", Len(data)),
              nrow |-> ColMax(data, "row_nr", Len(data)),
              ncol |-> ColMax(data, "col_nr", Len(data)),
              coord_excel_data |-> data]
    ELSE gp

(***************************************************************************)
(* acquire_sequence: _check_file, grid initialisation, send_sequence,      *)
(* _save_params_ini and the set-up of _scan_grid.                          *)
(***************************************************************************)
acquire_sequence(seq) ==
    /\ pc = "idle"
    /\ entry' = "acquire_sequence"
    /\ outputCoord' = _prepare_output_files(outputCoord)
    /\ LET gp == IF seq.use_coord_excel THEN _init_grid_excel(grid_param, seq)
                 ELSE _init_grid(grid_param, seq)
       IN  /\ grid_param' = gp
           /\ sequence' = IF seq.use_coord_excel /\ seq.path_coord_excel \in DOMAIN ExcelFiles
                          THEN [seq EXCEPT !.nslices_nrow_ncol = <<gp.nsl, gp.nrow, gp.ncol>>]
                          ELSE seq
           /\ cplx_data' = Zeros(2 * gp.nsl * gp.nrow * gp.ncol)
    /\ dest_xyz_list' = <<>>
    /\ loop' = [i |-> 0, j |-> 0, k |-> 0, counter |-> 0]
    /\ pc' = "calc"
    /\ UNCHANGED <<abort, grid, point, attempt, frames, signal_a, outputRAW, outputACD,
                   current_position, moves, ops, waits, readlog, written, yielded>>
    /\ ds_sent' = Append(ds_sent, seq)
    /\ UNCHANGED restvars

(***************************************************************************)
(* _calculate_new_coord_and_save                                           *)
(***************************************************************************)
ExcelPoint(data, counter) ==
    LET row == data[counter + 1]
    IN  [vol_orien |-> <<row.measur_nr, row.cluster_nr, row.indices_nr>>,
         relat_xyz |-> row.xyz,
         plane_orien |-> <<row.row_nr, row.col_nr, row.sl_nr>>,
         dest_xyz |-> VAdd(row.xyz, coord_zero)]

\* mutant: the row index steps along vect_col and the column index along vect_row
GridDestRowColSwapped(seq, i, j, k) ==
    VAdd(VAdd(VAdd(seq.coord_start, VMul(i, seq.vect_sl)), VMul(j, seq.vect_col)),
         VMul(k, seq.vect_row))

GridDest(seq, i, j, k) ==
    VAdd(VAdd(VAdd(seq.coord_start, VMul(i, seq.vect_sl)), VMul(j, seq.vect_row)),
         VMul(k, seq.vect_col))

GridPoint(seq, counter, i, j, k) ==
    LET dest_xyz == GridDest(seq, i, j, k)
    IN  [vol_orien |-> <<counter + 1, 1, counter + 1>>,
         relat_xyz |-> VSub(dest_xyz, coord_zero),
         plane_orien |-> <<j, k, i>>,
         dest_xyz |-> dest_xyz]

_calculate_new_coord_and_save ==
    /\ entry = "acquire_sequence"
    /\ pc = "calc"
    /\ ~LoopDone(grid_param, loop)
    /\ ops' = <<>>
    /\ waits' = <<>>
    /\ readlog' = <<>>
    /\ attempt' = 0
    /\ IF sequence.use_coord_excel /\ loop.counter >= Len(grid_param.coord_excel_data)
       THEN /\ Raise(IF grid_param.coord_excel_data = <<>> THEN "AttributeError" ELSE "KeyError")
            /\ UNCHANGED <<point, outputCoord>>
       ELSE LET p == IF sequence.use_coord_excel
                     THEN ExcelPoint(grid_param.coord_excel_data, loop.counter)
                     ELSE GridPoint(sequence, loop.counter, loop.i, loop.j, loop.k)
            IN  /\ point' = p
                /\ outputCoord' = _save_data(outputCoord, p.vol_orien, p.relat_xyz,
                                             p.plane_orien, p.dest_xyz)
                /\ pc' = "move"
                /\ UNCHANGED abort
    /\ UNCHANGED <<entry, sequence, grid_param, loop, grid, frames, signal_a, cplx_data,
                   dest_xyz_list, outputRAW, outputACD, current_position, moves,
                   written, yielded>>
    /\ UNCHANGED extvars

(***************************************************************************)
(* MotorsXYZ.move(XYZ, relative=False)                                     *)
(***************************************************************************)
\* mutant: only the lower end of the travel range is looked at
isWithinRangeLowerOnly(destXYZ) ==
    \A a \in 1..3 : -1 * rangeXYZ[a] <= destXYZ[a]

isWithinRange(destXYZ) ==
    \A a \in 1..3 : -1 * rangeXYZ[a] <= destXYZ[a] /\ destXYZ[a] <= 0

\* ok: _wait_for_ok saw 'ok' (not 'error', 'ALARM' or nothing) after the command;
\* done: wait_for_idle saw the status Idle.  A command that was answered with
\* an error leaves the stage where it is, and readPosition reads that position.
move(ok, done) ==
    /\ pc = "move"
    /\ IF isWithinRange(point.dest_xyz)
       THEN /\ moves' = Append(moves, point.dest_xyz)
            /\ ops' = IF ok THEN Append(ops, "move") ELSE ops \o <<"move", "error">>
            /\ IF done
               THEN /\ current_position' = IF ok THEN point.dest_xyz ELSE current_position
                    /\ pc' = IF entry = "check_scan" THEN "next" ELSE "acquire"
                    /\ UNCHANGED abort
               ELSE /\ Raise("MotorError")
                    /\ UNCHANGED current_position
       ELSE /\ Raise("MotorError")
            /\ UNCHANGED <<moves, ops, current_position>>
    /\ UNCHANGED <<entry, sequence, grid_param, loop, grid, point, attempt, frames,
                   signal_a, cplx_data, dest_xyz_list, outputRAW, outputCoord, outputACD,
                   waits, readlog, written, yielded>>
    /\ UNCHANGED extvars

(***************************************************************************)
(* _acquire_data: one arm / execute / wait cycle of the frame `attempt`,   *)
(* then, frame by frame, the read of the waveform.                         *)
(***************************************************************************)
RetryOnceMore(ok, att) == ~ok /\ att <= 5

Retry(ok, att) == ~ok /\ att < 5

AcquireCycle(armed, ok) ==
    /\ pc = "acquire"
    /\ IF ~armed
       THEN /\ Raise("PicoError")
            /\ ops' = Append(ops, "arm")
            /\ UNCHANGED <<attempt, frames, waits>>
       ELSE /\ ops' = ops \o <<"arm", "exec", "wait">>
            /\ waits' = Append(waits, ok)
            /\ UNCHANGED abort
            /\ IF Retry(ok, attempt)
               THEN /\ attempt' = attempt + 1
                    /\ UNCHANGED <<pc, frames>>
               ELSE /\ pc' = "read"
                    /\ frames' = attempt + 1
                    /\ UNCHANGED attempt
    /\ UNCHANGED <<entry, sequence, grid_param, loop, grid, point, signal_a, cplx_data,
                   dest_xyz_list, outputRAW, outputCoord, outputACD, current_position,
                   moves, readlog, written, yielded>>

\* mutant: only the innermost frame stores what it read
ReadVoltsInnermostOnly(w) ==
    /\ pc = "read"
    /\ signal_a' = IF readlog = <<>> THEN w ELSE signal_a
    /\ ops' = Append(ops, "read")
    /\ readlog' = Append(readlog, w)
    /\ frames' = frames - 1
    /\ pc' = IF frames = 1 THEN "store" ELSE "read"
    /\ UNCHANGED <<entry, abort, sequence, grid_param, loop, grid, point, attempt,
                   cplx_data, dest_xyz_list, outputRAW, outputCoord, outputACD,
                   current_position, moves, waits, written, yielded>>

ReadVolts(w) ==
    /\ pc = "read"
    /\ signal_a' = w
    /\ ops' = Append(ops, "read")
    /\ readlog' = Append(readlog, w)
    /\ frames' = frames - 1
    /\ pc' = IF frames = 1 THEN "store" ELSE "read"
    /\ UNCHANGED <<entry, abort, sequence, grid_param, loop, grid, point, attempt,
                   cplx_data, dest_xyz_list, outputRAW, outputCoord, outputACD,
                   current_position, moves, waits, written, yielded>>

_acquire_data ==
    /\ entry = "acquire_sequence"
    /\ \/ \E armed \in BOOLEAN, ok \in BOOLEAN : AcquireCycle(armed, ok)
       \/ \E w \in Waveforms : ReadVolts(w)
    /\ UNCHANGED extvars

(***************************************************************************)
(* _scan_grid: the rest of the loop body after _acquire_data, and the      *)
(* write of the field volume after the loops.                              *)
(***************************************************************************)
StoreCell(data, gp, lp, ap) ==
    [data EXCEPT ![Flat(gp, 0, lp.i, lp.j, lp.k)] = ap[1],
                 ![Flat(gp, 1, lp.i, lp.j, lp.k)] = ap[2]]

_scan_grid_point ==
    /\ entry = "acquire_sequence"
    /\ pc = "store"
    /\ outputRAW' = Append(outputRAW, signal_a)
    /\ dest_xyz_list' = Append(dest_xyz_list, point.dest_xyz)
    /\ cplx_data' = StoreCell(cplx_data, grid_param, loop,
                              _process_data(signal_a, proces_param.begn, proces_param.endn))
    /\ written' = Append(written, <<loop.i, loop.j, loop.k>>)
    /\ loop' = LoopNext(grid_param, loop)
    /\ pc' = "calc"
    /\ UNCHANGED <<entry, abort, sequence, grid_param, grid, point, attempt, frames,
                   signal_a, outputCoord, outputACD, current_position, moves, ops,
                   waits, readlog, yielded>>
    /\ UNCHANGED extvars

_scan_grid_tofile ==
    /\ entry = "acquire_sequence"
    /\ pc = "calc"
    /\ LoopDone(grid_param, loop)
    /\ outputACD' = cplx_data
    /\ pc' = "done"
    /\ UNCHANGED <<entry, abort, sequence, grid_param, loop, grid, point, attempt, frames,
                   signal_a, cplx_data, dest_xyz_list, outputRAW, outputCoord,
                   current_position, moves, ops, waits, readlog, written, yielded>>
    /\ UNCHANGED extvars

(***************************************************************************)
(* Legacy acquisition.py: acquire, scan_grid, acquire_data, save_data.     *)
(***************************************************************************)
init_grid(gp, protocol) ==
    [gp EXCEPT !.nsl = protocol.nslices_nrow_ncol[1],
               !.nrow = protocol.nslices_nrow_ncol[2],
               !.ncol = protocol.nslices_nrow_ncol[3]]

\* the grid set-up shared by acquire and check_scan; a missing table is sys.exit()
LegacyGrid(protocol) ==
    IF protocol.use_coord_excel
    THEN IF protocol.path_coord_excel \in DOMAIN ExcelFiles
         THEN /\ grid_param' = _init_grid_excel(grid_param, protocol)
              /\ sequence' = [protocol EXCEPT !.nslices_nrow_ncol =
                                 <<grid_param'.nsl, grid_param'.nrow, grid_param'.ncol>>]
              /\ pc' = "calc"
              /\ UNCHANGED abort
         ELSE /\ Raise("SystemExit")
              /\ sequence' = protocol
              /\ UNCHANGED grid_param
    ELSE /\ grid_param' = init_grid(grid_param, protocol)
         /\ sequence' = protocol
         /\ pc' = "calc"
         /\ UNCHANGED abort

acquire(protocol) ==
    /\ pc = "idle"
    /\ entry' = "acquire"
    /\ outputCoord' = _prepare_output_files(outputCoord)
    /\ LegacyGrid(protocol)
    /\ cplx_data' = Zeros(2 * grid_param'.nsl * grid_param'.nrow * grid_param'.ncol)
    /\ loop' = [i |-> 0, j |-> 0, k |-> 0, counter |-> 0]
    /\ UNCHANGED <<grid, point, attempt, frames, signal_a, dest_xyz_list, outputRAW,
                   outputACD, current_position, moves, ops, waits, readlog, written,
                   yielded>>
    /\ ds_sent' = IF pc' = "calc" THEN Append(ds_sent, protocol) ELSE ds_sent
    /\ UNCHANGED restvars

\* destXYZ = starting_pos + i*vectSl + j*vectCol + k*vectRow
LegacyDest(protocol, i, j, k) ==
    VAdd(VAdd(VAdd(protocol.coord_start, VMul(i, protocol.vect_sl)),
              VMul(j, protocol.vect_col)), VMul(k, protocol.vect_row))

LegacyPoint(protocol, counter, i, j, k) ==
    LET destXYZ == LegacyDest(protocol, i, j, k)
    IN  [vol_orien |-> <<counter + 1, 1, counter + 1>>,
         relat_xyz |-> VSub(destXYZ, coord_zero),
         plane_orien |-> <<j, k, i>>,
         dest_xyz |-> destXYZ]

scan_grid_coord ==
    /\ entry = "acquire"
    /\ pc = "calc"
    /\ ~LoopDone(grid_param, loop)
    /\ ops' = <<>>
    /\ waits' = <<>>
    /\ readlog' = <<>>
    /\ attempt' = 0
    /\ IF sequence.use_coord_excel /\ loop.counter >= Len(grid_param.coord_excel_data)
       THEN /\ Raise("KeyError")
            /\ UNCHANGED point
       ELSE /\ point' = IF sequence.use_coord_excel
                        THEN ExcelPoint(grid_param.coord_excel_data, loop.counter)
                        ELSE LegacyPoint(sequence, loop.counter, loop.i, loop.j, loop.k)
            /\ pc' = "move"
            /\ UNCHANGED abort
    /\ UNCHANGED <<entry, sequence, grid_param, loop, grid, frames, signal_a, cplx_data,
                   dest_xyz_list, outputRAW, outputCoord, outputACD, current_position,
                   moves, written, yielded>>
    /\ UNCHANGED extvars

acquire_data ==
    /\ entry = "acquire"
    /\ \/ \E armed \in BOOLEAN, ok \in BOOLEAN : AcquireCycle(armed, ok)
       \/ \E w \in Waveforms : ReadVolts(w)
    /\ UNCHANGED extvars

scan_grid_point ==
    /\ entry = "acquire"
    /\ pc = "store"
    /\ outputRAW' = Append(outputRAW, signal_a)
    /\ outputCoord' = _save_data(outputCoord, point.vol_orien, point.relat_xyz,
                                 point.plane_orien, point.dest_xyz)
    /\ cplx_data' = StoreCell(cplx_data, grid_param, loop,
                              _process_data(signal_a, proces_param.begn, proces_param.endn))
    /\ written' = Append(written, <<loop.i, loop.j, loop.k>>)
    /\ loop' = LoopNext(grid_param, loop)
    /\ pc' = "calc"
    /\ UNCHANGED <<entry, abort, sequence, grid_param, grid, point, attempt, frames,
                   signal_a, dest_xyz_list, outputACD, current_position, moves, ops,
                   waits, readlog, yielded>>
    /\ UNCHANGED extvars

scan_grid_tofile ==
    /\ entry = "acquire"
    /\ pc = "calc"
    /\ LoopDone(grid_param, loop)
    /\ outputACD' = cplx_data
    /\ pc' = "done"
    /\ UNCHANGED <<entry, abort, sequence, grid_param, loop, grid, point, attempt, frames,
                   signal_a, cplx_data, dest_xyz_list, outputRAW, outputCoord,
                   current_position, moves, ops, waits, readlog, written, yielded>>
    /\ UNCHANGED extvars

(***************************************************************************)
(* Legacy check_scan / scan_only: the grid is walked with a Scan_Iter and  *)
(* the stage is moved to every point, without acquisition.                 *)
(***************************************************************************)
check_scan(protocol, scan) ==
    /\ pc = "idle"
    /\ entry' = "check_scan"
    /\ LegacyGrid(protocol)
    /\ grid' = IF pc' = "calc"
               THEN Scan_Iter(grid_param'.nsl, grid_param'.nrow, grid_param'.ncol, scan)
               ELSE grid
    /\ loop' = [i |-> 0, j |-> 0, k |-> 0, counter |-> 0]
    /\ UNCHANGED <<point, attempt, frames, signal_a, cplx_data, dest_xyz_list, outputRAW,
                   outputCoord, outputACD, current_position, moves, ops, waits, readlog,
                   written, yielded>>
    /\ UNCHANGED extvars

\* Scan_Iter.__next__: <<raised StopIteration, the iterator after, the value>>
__next__(self) ==
    IF self.cur_index >= self.N
    THEN <<TRUE, self, <<0, 0, 0>>>>
    ELSE LET index == self.cur_index
         IN  <<FALSE, [self EXCEPT !.cur_index = self.cur_index + 1],
               IF self.direct THEN dir_i2nsnrnc(self, index) ELSE alt_i2nsnrnc(self, index)>>

scan_only ==
    /\ entry = "check_scan"
    /\ pc = "calc"
    /\ LET nx == __next__(grid)
           src == nx[3]
       IN  IF nx[1]
           THEN /\ pc' = "done"
                /\ UNCHANGED <<abort, grid, loop, point, yielded, ops>>
           ELSE /\ grid' = nx[2]
                /\ yielded' = Append(yielded, src)
                /\ loop' = [loop EXCEPT !.i = src[1], !.j = src[2], !.k = src[3]]
                /\ ops' = <<>>
                /\ IF sequence.use_coord_excel
                      /\ loop.counter >= Len(grid_param.coord_excel_data)
                   THEN /\ Raise("KeyError")
                        /\ UNCHANGED point
                   ELSE /\ point' =
                             IF sequence.use_coord_excel
                             THEN ExcelPoint(grid_param.coord_excel_data, loop.counter)
                             ELSE LegacyPoint(sequence, loop.counter, src[1], src[2], src[3])
                        /\ pc' = "move"
                        /\ UNCHANGED abort
    /\ UNCHANGED <<entry, sequence, grid_param, attempt, frames, signal_a, cplx_data,
                   dest_xyz_list, outputRAW, outputCoord, outputACD, current_position,
                   moves, waits, readlog, written>>
    /\ UNCHANGED extvars

scan_only_counter ==
    /\ entry = "check_scan"
    /\ pc = "next"
    /\ loop' = [loop EXCEPT !.counter = loop.counter + 1]
    /\ pc' = "calc"
    /\ UNCHANGED <<entry, abort, sequence, grid_param, grid, point, attempt, frames,
                   signal_a, cplx_data, dest_xyz_list, outputRAW, outputCoord, outputACD,
                   current_position, moves, ops, waits, readlog, written, yielded>>
    /\ UNCHANGED extvars

(***************************************************************************)
(* Properties.                                                             *)
(***************************************************************************)
Last(q) == q[Len(q)]
Count(q, x) == Cardinality({n \in 1..Len(q) : q[n] = x})
IsPrefix(p, q) == Len(p) <= Len(q) /\ \A n \in 1..Len(p) : p[n] = q[n]
IsHeader(row) == "names" \in DOMAIN row
Measuring == entry \in {"acquire_sequence", "acquire"}
NPoints == grid_param.nsl * grid_param.nrow * grid_param.ncol
Cycles == Count(ops, "arm")
AllTimedOut == Len(waits) = 6 /\ \A n \in 1..6 : ~waits[n]
\* the number of failed waits in a row since the point's first attempt
RECURSIVE FailedRun(_, _)
FailedRun(w, n) == IF n > Len(w) \/ w[n] THEN 0 ELSE 1 + FailedRun(w, n + 1)
\* offset of cell (c, s, r, k) in a file of shape (2, ns, nr, nc), row-major
AcdOffset(c, cell) ==
    ((c * grid_param.nsl + cell[1]) * grid_param.nrow + cell[2]) * grid_param.ncol
    + cell[3] + 1

\* C1: at one grid point the number of arm/trigger/wait cycles is 1 + the number
\* of consecutive failed waits, capped at 6: six cycles when every wait fails,
\* and never a seventh.
C1_RetryBound ==
    /\ Cycles <= 6
    /\ pc \in {"read", "store"} =>
          /\ Cycles = Len(waits)
          /\ Cycles = Min(1 + FailedRun(waits, 1), 6)
          /\ (\A n \in 1..Len(waits) : ~waits[n]) => Cycles = 6

C1_Witness == pc = "store" /\ AllTimedOut /\ Cycles = 6

C3_MotionErrorKeepsLogs ==
    (Measuring /\ abort = "MotorError") =>
        /\ Count(ops, "arm") = 0 /\ Count(ops, "exec") = 0
        /\ Len(outputRAW) = loop.counter
        /\ Len(outputCoord) = 1 + loop.counter

\* C4: after a completed scan the field-volume file holds 2*ns*nr*nc values,
\* every cell was written from exactly one visited point, and the file is
\* written only after the last point.
C4_VolumeComplete ==
    /\ outputACD # <<"none">> => pc = "done" /\ Len(written) = NPoints
    /\ (Measuring /\ pc = "done") =>
          /\ Len(outputACD) = 2 * NPoints
          /\ Len(outputRAW) = NPoints
          /\ \A s \in 0..(grid_param.nsl - 1), r \in 0..(grid_param.nrow - 1),
                k \in 0..(grid_param.ncol - 1) : Count(written, <<s, r, k>>) = 1
          /\ \A n \in 1..Len(written) :
                /\ outputACD[AcdOffset(0, written[n])] =
                       _process_data(outputRAW[n], 0, sample_count)[1]
                /\ outputACD[AcdOffset(1, written[n])] =
                       _process_data(outputRAW[n], 0, sample_count)[2]

C4_Witness ==
    /\ entry = "acquire_sequence" /\ pc = "done"
    /\ grid_param.nrow = 2 /\ grid_param.ncol = 2 /\ Len(outputACD) = 8
    /\ outputRAW[1] # outputRAW[2]

\* C5: after a completed scan of N points the raw log holds N waveforms and the
\* CSV one header row and N data rows, in visit order whatever the retries; no
\* earlier waveform or row is ever overwritten.
C5_LogsAtEnd ==
    (Measuring /\ pc = "done") =>
        /\ Len(outputRAW) = NPoints
        /\ Len(outputCoord) = NPoints + 1
        /\ IsHeader(outputCoord[1])
        /\ Len(moves) = NPoints
        /\ \A n \in 1..NPoints :
              /\ ~IsHeader(outputCoord[n + 1])
              /\ outputCoord[n + 1].dest_xyz = moves[n]
              /\ ~sequence.use_coord_excel => outputCoord[n + 1].vol_orien[1] = n

C5_AppendOnly ==
    IsPrefix(outputRAW, outputRAW') /\ IsPrefix(outputCoord, outputCoord')

C5_AppendOnlyLogs == [](C5_LogsAtEnd) /\ [][C5_AppendOnly]_vars

C5_Witness ==
    /\ Measuring /\ pc = "done" /\ NPoints = 3 /\ Len(outputRAW) = 3
    /\ Len(waits) > 1

ComputedGrid == Measuring /\ ~sequence.use_coord_excel
AtPoint == pc \in {"move", "acquire", "read", "store"}
SliceRowColumnOrder == loop.counter = (loop.i * grid_param.nrow + loop.j) * grid_param.ncol + loop.k
DestAlong(rowStep, colStep) ==
    VAdd(VAdd(VAdd(sequence.coord_start, VMul(loop.i, sequence.vect_sl)),
              VMul(loop.j, rowStep)), VMul(loop.k, colStep))
ArrivedAt(dest) ==
    /\ point.dest_xyz = dest
    /\ pc \in {"acquire", "read", "store"} =>
          /\ Last(moves) = dest
          /\ Count(ops, "error") = 0 => current_position = dest

Product(it) == (0..(it.ns - 1)) \X (0..(it.nr - 1)) \X (0..(it.nc - 1))
Iterating == entry = "check_scan" /\ pc # "aborted"

\* C7: with ns, nr, nc >= 1 a fresh Scan_Iter yields, in either mode, exactly
\* ns*nr*nc distinct triples, every element of the cartesian product once,
\* slice-major and within a slice row-major.
C7_IterCoversProduct ==
    (Iterating /\ grid.ns >= 1 /\ grid.nr >= 1 /\ grid.nc >= 1) =>
        /\ Len(yielded) <= grid.ns * grid.nr * grid.nc
        /\ \A n \in 1..Len(yielded) :
              /\ yielded[n] \in Product(grid)
              /\ \A m \in 1..(n - 1) :
                    /\ yielded[m] # yielded[n]
                    /\ \/ yielded[m][1] < yielded[n][1]
                       \/ yielded[m][1] = yielded[n][1] /\ yielded[m][2] <= yielded[n][2]
        /\ pc = "done" =>
              /\ Len(yielded) = grid.ns * grid.nr * grid.nc
              /\ {yielded[n] : n \in 1..Len(yielded)} = Product(grid)

C7_Witness ==
    /\ entry = "check_scan" /\ pc = "done" /\ grid.direct
    /\ grid.ns = 2 /\ grid.nr = 2 /\ grid.nc = 3 /\ Len(yielded) = 12

\* the columns yielded for row r of slice s, in the order they were yielded
ColsOf(s, r) ==
    LET InRow(t) == t[1] = s /\ t[2] = r
        q == SelectSeq(yielded, InRow)
    IN  [m \in 1..Len(q) |-> q[m][3]]

C9_EmptyGridIsNoOp ==
    (entry # "none" /\ abort = "" /\ NPoints = 0) =>
        /\ pc \in {"calc", "done"}
        /\ moves = <<>> /\ ops = <<>> /\ waits = <<>>
        /\ outputRAW = <<>>
        /\ \A n \in 1..Len(outputCoord) : IsHeader(outputCoord[n])
        /\ entry = "check_scan" => yielded = <<>> /\ grid.N = 0 /\ grid.cur_index = 0

C9_Witness ==
    /\ entry = "acquire_sequence" /\ pc = "done" /\ abort = ""
    /\ grid_param.nsl = 2 /\ grid_param.nrow = 1 /\ grid_param.ncol = 0
    /\ moves = <<>> /\ outputRAW = <<>> /\ Len(outputCoord) = 1

OwnCell(row) == <<row.sl_nr, row.row_nr, row.col_nr>>

\* C10 as stated: in coordinate-table mode every row of the table is visited
\* once, in table order, at its XYZ + coord_zero; the row's phasor is stored in
\* the cell of the row's own Slice/Row/Column numbers (counted from 1 or from
\* 0), and the volume's dimensions are the largest numbers of the table.
C10_TableRowsOnceInOrder ==
    (Measuring /\ sequence.use_coord_excel /\ sequence.path_coord_excel \in DOMAIN ExcelFiles) =>
        LET table == ExcelFiles[sequence.path_coord_excel]
        IN  /\ abort # "KeyError"
            /\ grid_param.nsl = ColMax(table, "sl_nr", Len(table))
            /\ grid_param.nrow = ColMax(table, "row_nr", Len(table))
            /\ grid_param.ncol = ColMax(table, "col_nr", Len(table))
            /\ Len(written) <= Len(table)
            /\ \A n \in 1..Len(written) :
                  \/ written[n] = OwnCell(table[n])
                  \/ written[n] = VSub(OwnCell(table[n]), <<1, 1, 1>>)
            /\ pc = "done" =>
                  /\ Len(moves) = Len(table)
                  /\ Len(written) = Len(table)
                  /\ \A n \in 1..Len(moves) : moves[n] = VAdd(table[n].xyz, coord_zero)

(***************************************************************************)
(* Scan_Iter used by several for loops: for s, r, c in myscan.             *)
(***************************************************************************)
MaxPasses == 2

InitIter ==
    /\ ScanInit
    /\ myscan \in {Scan_Iter(ns, nr, nc, scan) :
                      ns \in 0..MaxDim, nr \in 0..MaxDim, nc \in 0..MaxDim,
                      scan \in {"Dir", "Alt"}}
    /\ scan_state = "made"
    /\ passes = <<>>
    /\ ds_sent = <<>>
    /\ FilesIdle /\ AlignIdle /\ WindowIdle /\ MoreIdle

\* a for statement starts: iter(myscan) returns the object itself; a loop that
\* is still running is left by break
__iter__ ==
    /\ scan_state \in {"made", "looping", "stopped"}
    /\ Len(passes) < MaxPasses
    /\ myscan' = myscan
    /\ scan_state' = "looping"
    /\ passes' = Append(passes, <<>>)
    /\ UNCHANGED <<scanvars, dsvars, filevars, alignvars, winvars, morevars>>

\* the for statement asks for its next item
for_next ==
    /\ scan_state = "looping"
    /\ LET nx == __next__(myscan)
       IN  IF nx[1]
           THEN /\ scan_state' = "stopped"
                /\ UNCHANGED <<myscan, passes>>
           ELSE /\ myscan' = nx[2]
                /\ passes' = [passes EXCEPT ![Len(passes)] = Append(@, nx[3])]
                /\ UNCHANGED scan_state
    /\ UNCHANGED <<scanvars, dsvars, filevars, alignvars, winvars, morevars>>

NextIter == __iter__ \/ for_next

SpecIter == InitIter /\ [][NextIter]_vars

\* the n-th triple (1-based) of the full sequence of a Scan_Iter
FullSequence(self, n) ==
    IF self.direct THEN dir_i2nsnrnc(self, n - 1) ELSE alt_i2nsnrnc(self, n - 1)

\* C11: Scan_Iter is restartable: a for loop over an object that was partly or
\* fully consumed is given the full sequence of ns*nr*nc triples again, from
\* the first triple on.
C11_Restartable ==
    /\ \A p \in 1..Len(passes) :
          \A n \in 1..Len(passes[p]) : passes[p][n] = FullSequence(myscan, n)
    /\ scan_state = "stopped" => Len(passes[Len(passes)]) = myscan.N

(***************************************************************************)
(* main: for seq in sequence_list: acquisition.acquire_sequence(seq), all  *)
(* with the one Acquisition object.                                        *)
(***************************************************************************)
MaxSeqs == 2

MainSequences ==
    {seq \in GridSequences :
        seq.coord_start = <<-3, -3, -3>> /\ seq.nslices_nrow_ncol = <<1, 1, 2>>}
    \cup {seq \in ExcelSequences : seq.path_coord_excel \in {"axis.xlsx", "missing.xlsx"}}

\* the next sequence of the list: its files are new ones; the histories start anew
main_for_seq ==
    /\ entry = "acquire_sequence"
    /\ pc = "done"
    /\ Len(ds_sent) < MaxSeqs
    /\ pc' = "idle"
    /\ outputRAW' = <<>>
    /\ outputCoord' = <<>>
    /\ outputACD' = <<"none">>
    /\ point' = NoPoint
    /\ moves' = <<>>
    /\ ops' = <<>>
    /\ waits' = <<>>
    /\ readlog' = <<>>
    /\ written' = <<>>
    /\ UNCHANGED <<entry, abort, sequence, grid_param, loop, grid, attempt, frames, signal_a,
                   cplx_data, dest_xyz_list, current_position, yielded>>
    /\ UNCHANGED extvars

NextMain ==
    \/ \E seq \in MainSequences : acquire_sequence(seq)
    \/ _calculate_new_coord_and_save
    \/ \E ok \in BOOLEAN, done \in BOOLEAN : move(ok, done)
    \/ _acquire_data
    \/ _scan_grid_point
    \/ _scan_grid_tofile
    \/ main_for_seq

SpecMain == Init /\ [][NextMain]_vars

MissingTable ==
    /\ entry = "acquire_sequence" /\ pc # "idle"
    /\ sequence.use_coord_excel /\ sequence.path_coord_excel \notin DOMAIN ExcelFiles

\* C12: when the coordinate table of a sequence does not exist, acquire_sequence
\* ends the pipeline before the sequence is sent to the driving system, before
\* any motion and any pulse; it does not go on with the grid dimensions or the
\* table of an earlier sequence.
C12_MissingTableFailsFast ==
    MissingTable =>
        /\ pc = "aborted"
        /\ \A n \in 1..Len(ds_sent) : ds_sent[n] # sequence
        /\ moves = <<>> /\ ops = <<>>

(***************************************************************************)
(* Output files.  A file of the base name is <<counter, extension>>: the   *)
(* counter -1 is the requested name itself, n >= 0 is name_<n as 2 digits>.*)
(***************************************************************************)
imax == 99
MaxRuns == 2
Plain == -1
OSError == -2

Raws(files) == {f[1] : f \in {g \in files : g[2] = "raw"}}

\* backend: while not fileok and i <= imax: ...; if i > imax: raise
RECURSIVE _check_file_while(_, _, _, _)
_check_file_while(raws, fileok, i, filename) ==
    IF ~fileok /\ i <= imax
    THEN _check_file_while(raws, i \notin raws, i + 1, i)
    ELSE IF i > imax THEN OSError ELSE filename

_check_file(raws) == _check_file_while(raws, Plain \notin raws, 0, Plain)

\* legacy: while not fileok: ...; i += 1; if i > imax: raise
RECURSIVE check_file_while(_, _, _, _)
check_file_while(raws, fileok, i, filename) ==
    IF ~fileok
    THEN IF i + 1 > imax THEN OSError
         ELSE check_file_while(raws, i \notin raws, i + 1, i)
    ELSE filename

check_file(raws) == check_file_while(raws, Plain \notin raws, 0, Plain)

\* directories a run may find: a few names taken, or nearly all of them
InitDisks ==
    {{<<n, "raw">> : n \in taken} : taken \in SUBSET (Plain..1)}
    \cup {{<<n, "raw">> : n \in Plain..top} : top \in (imax - 2)..imax}

InitFiles ==
    /\ ScanInit /\ ds_sent = <<>> /\ IterIdle /\ AlignIdle /\ WindowIdle /\ MoreIdle
    /\ disk \in InitDisks
    /\ run \in [impl : {"backend", "legacy"}, name : {Plain}, phase : {"idle"}]
    /\ selections = <<>>

\* _check_file and _prepare_output_files: the name is selected and the CSV is
\* opened for appending to take the header
check_output_file ==
    /\ run.phase = "idle"
    /\ Len(selections) < MaxRuns
    /\ LET raws == Raws(disk)
           name == IF run.impl = "backend" THEN _check_file(raws) ELSE check_file(raws)
       IN  /\ selections' = Append(selections, [raws |-> raws, name |-> name,
                                                 found |-> {f \in disk : f[1] = name}])
           /\ IF name = OSError
              THEN UNCHANGED <<disk, run>>
              ELSE /\ disk' = disk \cup {<<name, "csv">>}
                   /\ run' = [run EXCEPT !.name = name, !.phase = "prepared"]
    /\ UNCHANGED <<scanvars, dsvars, itervars, alignvars, winvars, morevars>>

_save_params_ini ==
    /\ run.phase = "prepared"
    /\ disk' = disk \cup {<<run.name, "ini">>}
    /\ run' = [run EXCEPT !.phase = "scan"]
    /\ UNCHANGED <<selections, scanvars, dsvars, itervars, alignvars, winvars, morevars>>

\* a point of the scan is done: its waveform is appended to the raw file
outraw_tofile ==
    /\ run.phase = "scan"
    /\ disk' = disk \cup {<<run.name, "raw">>}
    /\ UNCHANGED <<run, selections, scanvars, dsvars, itervars, alignvars, winvars, morevars>>

\* the loops are over (at once when the grid is empty): the ACD file is written
outacd_tofile ==
    /\ run.phase = "scan"
    /\ disk' = disk \cup {<<run.name, "acd">>}
    /\ run' = [run EXCEPT !.phase = "idle"]
    /\ UNCHANGED <<selections, scanvars, dsvars, itervars, alignvars, winvars, morevars>>

\* an exception (MotorError, PicoError, ...) ends the run where it is
run_aborted ==
    /\ run.phase \in {"prepared", "scan"}
    /\ run' = [run EXCEPT !.phase = "idle"]
    /\ UNCHANGED <<disk, selections, scanvars, dsvars, itervars, alignvars, winvars, morevars>>

NextFiles ==
    \/ check_output_file
    \/ _save_params_ini
    \/ outraw_tofile
    \/ outacd_tofile
    \/ run_aborted

SpecFiles == InitFiles /\ [][NextFiles]_vars

FreeCounters(raws) == {n \in 0..99 : n \notin raws}
Smallest(S) == CHOOSE n \in S : \A m \in S : n <= m

\* C13: check_file selects the requested name when no file of that name exists,
\* otherwise name_NN for the smallest two-digit NN (from 00) whose file does not
\* exist; the selected raw file never exists when it is selected.
C13_SmallestFreeName ==
    \A n \in 1..Len(selections) :
        LET sel == selections[n]
        IN  /\ Plain \notin sel.raws => sel.name = Plain
            /\ (Plain \in sel.raws /\ FreeCounters(sel.raws) # {}) =>
                   sel.name = Smallest(FreeCounters(sel.raws))
            /\ sel.name # OSError => sel.name \notin sel.raws

\* C14: a rerun starts fresh files: the output files (raw, csv, acd, ini) that a
\* call of check_file selects are none of those selected by an earlier call for
\* the base name, so no file of an earlier run is appended to or overwritten.
C14_RerunStartsFresh ==
    \A n \in 1..Len(selections) :
        selections[n].name # OSError =>
            /\ selections[n].found = {}
            /\ \A m \in 1..(n - 1) : selections[m].name # selections[n].name

OutOfRange(destXYZ) == \E a \in 1..3 : destXYZ[a] < -rangeXYZ[a] \/ destXYZ[a] > 0

\* C15: a move to a target with an axis outside [-rangeXYZ[axis], 0] raises
\* MotorError, sends no motion command and leaves the cached position as it was.
C15_OutOfRangeSendsNothing ==
    [][(pc = "move" /\ OutOfRange(point.dest_xyz)) =>
          /\ pc' = "aborted" /\ abort' = "MotorError"
          /\ moves' = moves /\ ops' = ops
          /\ current_position' = current_position]_vars

C15_Witness ==
    /\ abort = "MotorError" /\ OutOfRange(point.dest_xyz)
    /\ Count(ops, "move") = 0
    /\ Len(moves) = 2 /\ current_position = Last(moves)

\* C16: move returns without raising only when the controller accepted the
\* command and then reported Idle; a command answered with an error or alarm
\* raises MotorError, so no data is acquired at a point the stage is not at.
C16_AcquiresOnlyWhereMoved ==
    /\ pc \in {"acquire", "read", "store"} =>
          /\ Count(ops, "error") = 0
          /\ current_position = point.dest_xyz
    /\ Count(ops, "error") > 0 => abort = "MotorError"

(***************************************************************************)
(* Acoustical alignment (backend).  Lengths are whole numbers of one fixed *)
(* fraction of a millimetre; the reduction factor is a fraction <<n, d>>.  *)
(* A line scan is _scan_grid run over a grid of 1 x 1 x ncol points; what  *)
(* it returns for a stationary beam is the profile at the points visited.  *)
(***************************************************************************)
Max(a, b) == IF a > b THEN a ELSE b

\* round(a / b) of Python 3 for a >= 0, b > 0: halves go to the even neighbour
round(a, b) ==
    LET q == a \div b
        r == a % b
    IN  IF 2 * r < b THEN q
        ELSE IF 2 * r > b THEN q + 1
        ELSE IF q % 2 = 0 THEN q ELSE q + 1

NoReduce(x, reduction_factor) == x

\* x *= reduction_factor
Reduce(x, reduction_factor) == (x * reduction_factor[1]) \div reduction_factor[2]

\* the largest sample of the waveform at dest: a symmetric profile with one peak
Profile(b, dest) ==
    Max(b.floor, b.peak - Abs(dest[1] - b.centre[1]))
        * Max(b.floor, b.peak - Abs(dest[2] - b.centre[2]))

_calculate_z_coords(p) ==
    <<p.coord_zero[3] + p.focus - p.distance_from_foc,
      p.coord_zero[3] + p.focus + p.distance_from_foc>>

RECURSIVE cumsum(_, _)
cumsum(q, k) == IF k = 0 THEN 0 ELSE q[k] + cumsum(q, k - 1)

\* np.argmin(np.abs(cumsum - total_sum / 2)), 1-based: the first of the smallest
center_of_mass_index(max_voltages) ==
    LET n == Len(max_voltages)
        dist(k) == Abs(2 * cumsum(max_voltages, k) - cumsum(max_voltages, n))
    IN  CHOOSE k \in 1..n : /\ \A m \in 1..n : dist(k) <= dist(m)
                            /\ \A m \in 1..(k - 1) : dist(m) > dist(k)

\* the sequence _scan_and_find_center_of_mass sets up for one line
LineSequence(fx, fy, line_length, line_step_size, direction, z, ncol) ==
    [NoSequence EXCEPT
        !.vect_sl = <<0, 0, 1>>,
        !.vect_row = IF direction = "x" THEN <<0, 1, 0>> ELSE <<1, 0, 0>>,
        !.vect_col = IF direction = "x" THEN <<line_step_size, 0, 0>>
                                        ELSE <<0, line_step_size, 0>>,
        !.coord_start = IF direction = "x"
                        THEN <<Last(fx) - line_length \div 2, Last(fy), z>>
                        ELSE <<Last(fx), Last(fy) - line_length \div 2, z>>,
        !.nslices_nrow_ncol = <<1, 1, ncol>>]

LineDests(seq) == [k \in 1..seq.nslices_nrow_ncol[3] |-> GridDest(seq, 0, 0, k - 1)]

_scan_and_find_center_of_mass(b, fx, fy, line_length, line_step_size, direction, z, ncol) ==
    LET dest_list == LineDests(LineSequence(fx, fy, line_length, line_step_size,
                                            direction, z, ncol))
        max_voltages == [k \in 1..ncol |-> Profile(b, dest_list[k])]
    IN  dest_list[center_of_mass_index(max_voltages)][IF direction = "x" THEN 1 ELSE 2]

LineScan(b, fx, fy, l, direction, z, found) ==
    [plane |-> z, direction |-> direction, found |-> found,
     iteration |-> Len(fy) - 2, length |-> l.length, step_size |-> l.step_size,
     ncol |-> l.ncol, centre |-> <<Last(fx), Last(fy)>>,
     dests |-> LineDests(LineSequence(fx, fy, l.length, l.step_size, direction, z, l.ncol))]

\* the condition of the while loop of _search_alignment
SearchGoesOn(fx, fy, threshold) ==
    \/ Abs(fx[Len(fx) - 1] - Last(fx)) > threshold
    \/ Abs(fy[Len(fy) - 1] - Last(fy)) > threshold

AlignSequence == [NoSequence EXCEPT !.path_coord_excel = "ac_align"]

AlignParams ==
    {[NoAlign EXCEPT !.init_line_len = 32, !.init_line_step = st, !.init_threshold = th,
                     !.reduction_factor = <<1, 2>>, !.max_red_iter = m,
                     !.create_axis_file = f, !.distance_from_foc = 2,
                     !.axis_length = 4, !.axis_stepsize = 2, !.focus = 8,
                     !.coord_zero = zero] :
        st \in {8}, th \in {4, 8}, m \in 1..3, f \in BOOLEAN,
        zero \in {<<-24, -24, -40>>, <<0, 0, -40>>}}

Beams(p) ==
    {[centre |-> <<p.coord_zero[1] + dx, p.coord_zero[2] + dy>>, peak |-> pk, floor |-> 1] :
        dx \in {-12, -5, 0, 6}, dy \in {-12, 0, 6}, pk \in {6, 24}}

InitAlign ==
    /\ ScanInit /\ ds_sent = <<>> /\ IterIdle /\ FilesIdle /\ WindowIdle /\ MoreIdle
    /\ align_pc = "start"
    /\ ac_align \in AlignParams
    /\ beam \in Beams(ac_align)
    /\ plane = 0
    /\ found_x_coords = <<>>
    /\ found_y_coords = <<>>
    /\ line = [length |-> 0, step_size |-> 0, ncol |-> 0]
    /\ middle_points = <<>>
    /\ acoustical_axis = <<>>
    /\ axis_file = <<>>
    /\ align_abort = ""
    /\ line_scans = <<>>

\* acoustical_alignment up to the call of _perform_alignment
acoustical_alignment ==
    /\ align_pc = "start"
    /\ ds_sent' = Append(ds_sent, AlignSequence)
    /\ align_pc' = "perform"
    /\ UNCHANGED <<ac_align, beam, plane, found_x_coords, found_y_coords, line,
                   middle_points, acoustical_axis, axis_file, align_abort, line_scans>>
    /\ UNCHANGED <<scanvars, itervars, filevars, winvars, morevars>>

\* _perform_alignment up to its for loop
_perform_alignment ==
    /\ align_pc = "perform"
    /\ line' = [line EXCEPT !.ncol = round(ac_align.init_line_len, ac_align.init_line_step)]
    /\ middle_points' = [idx \in 1..Len(_calculate_z_coords(ac_align)) |-> <<0, 0, 0>>]
    /\ plane' = 1
    /\ align_pc' = "for"
    /\ UNCHANGED <<ac_align, beam, found_x_coords, found_y_coords, acoustical_axis,
                   axis_file, align_abort, line_scans>>
    /\ UNCHANGED <<scanvars, dsvars, itervars, filevars, winvars, morevars>>

\* the for loop of _perform_alignment enters _search_alignment for the next
\* plane, or is over and _perform_alignment returns
_search_alignment ==
    /\ align_pc = "for"
    /\ IF plane > Len(_calculate_z_coords(ac_align))
       THEN /\ align_pc' = "axis"
            /\ UNCHANGED <<found_x_coords, found_y_coords, line>>
       ELSE /\ found_x_coords' = <<0, ac_align.coord_zero[1]>>
            /\ found_y_coords' = <<0, ac_align.coord_zero[2]>>
            /\ line' = [line EXCEPT !.length = ac_align.init_line_len,
                                    !.step_size = ac_align.init_line_step]
            /\ align_pc' = "while"
    /\ UNCHANGED <<ac_align, beam, plane, middle_points, acoustical_axis, axis_file,
                   align_abort, line_scans>>
    /\ UNCHANGED <<scanvars, dsvars, itervars, filevars, winvars, morevars>>

\* one turn of the while loop: the x line, the y line, and the reduction; a
\* line scan that fails (raises = "x" or "y") ends the alignment
_search_alignment_while(raises) ==
    /\ align_pc = "while"
    /\ SearchGoesOn(found_x_coords, found_y_coords, ac_align.init_threshold)
    /\ LET iteration == Len(found_x_coords) - 2
           z == _calculate_z_coords(ac_align)[plane]
           x == _scan_and_find_center_of_mass(beam, found_x_coords, found_y_coords,
                    line.length, line.step_size, "x", z, line.ncol)
           fx == Append(found_x_coords, x)
           y == _scan_and_find_center_of_mass(beam, fx, found_y_coords,
                    line.length, line.step_size, "y", z, line.ncol)
           scan_x == LineScan(beam, found_x_coords, found_y_coords, line, "x", z, x)
           scan_y == LineScan(beam, fx, found_y_coords, line, "y", z, y)
       IN  IF raises = "x"
           THEN /\ align_pc' = "raised"
                /\ align_abort' = "MotorError"
                /\ UNCHANGED <<found_x_coords, found_y_coords, line, line_scans>>
           ELSE IF raises = "y"
           THEN /\ align_pc' = "raised"
                /\ align_abort' = "MotorError"
                /\ found_x_coords' = fx
                /\ line_scans' = Append(line_scans, scan_x)
                /\ UNCHANGED <<found_y_coords, line>>
           ELSE /\ found_x_coords' = fx
                /\ found_y_coords' = Append(found_y_coords, y)
                /\ line_scans' = line_scans \o <<scan_x, scan_y>>
                /\ IF ac_align.max_red_iter = 1
                   THEN /\ align_pc' = "raised"
                        /\ align_abort' = "ZeroDivisionError"
                        /\ UNCHANGED line
                   ELSE /\ UNCHANGED <<align_pc, align_abort>>
                        /\ IF iteration % (ac_align.max_red_iter - 1) = 0
                           THEN LET line_length == Reduce(line.length,
                                                          ac_align.reduction_factor)
                                    line_step_size == Reduce(line.step_size,
                                                             ac_align.reduction_factor)
                                IN  line' = [length |-> line_length,
                                             step_size |-> line_step_size,
                                             ncol |-> round(line_length, line_step_size)]
                           ELSE UNCHANGED line
    /\ UNCHANGED <<ac_align, beam, plane, middle_points, acoustical_axis, axis_file>>
    /\ UNCHANGED <<scanvars, dsvars, itervars, filevars, winvars, morevars>>

\* the while loop is over: _search_alignment returns and the middle point of
\* the plane is saved
_search_alignment_return ==
    /\ align_pc = "while"
    /\ ~SearchGoesOn(found_x_coords, found_y_coords, ac_align.init_threshold)
    /\ middle_points' = [middle_points EXCEPT ![plane] =
                            <<Last(found_x_coords), Last(found_y_coords),
                              _calculate_z_coords(ac_align)[plane]>>]
    /\ plane' = plane + 1
    /\ align_pc' = "for"
    /\ UNCHANGED <<ac_align, beam, found_x_coords, found_y_coords, line, acoustical_axis,
                   axis_file, align_abort, line_scans>>
    /\ UNCHANGED <<scanvars, dsvars, itervars, filevars, winvars, morevars>>

\* origin is kept as <<numerators, denominator>>, direction as direction_vector
\* (the unit vector is direction_vector over its length)
_calculate_acoustical_axis ==
    /\ align_pc = "axis"
    /\ IF Len(middle_points) > 1
       THEN LET point1 == middle_points[1]
                point2 == middle_points[2]
                direction_vector == VSub(point2, point1)
                transducer_z_point ==
                    <<VAdd(VMul(direction_vector[3], point1),
                           VMul(ac_align.coord_zero[3] - point1[3], direction_vector)),
                      direction_vector[3]>>
            IN  acoustical_axis' = <<transducer_z_point, direction_vector>>
       ELSE UNCHANGED acoustical_axis
    /\ align_pc' = "save"
    /\ UNCHANGED <<ac_align, beam, plane, found_x_coords, found_y_coords, line,
                   middle_points, axis_file, align_abort, line_scans>>
    /\ UNCHANGED <<scanvars, dsvars, itervars, filevars, winvars, morevars>>

\* len(np.arange(0, axis_length + axis_stepsize, axis_stepsize))
t_values(p) == (p.axis_length + 2 * p.axis_stepsize - 1) \div p.axis_stepsize

\* the end of acoustical_alignment: the axis table is written if it is asked for
_save_acoustical_axis_to_excel ==
    /\ align_pc = "save"
    /\ IF ~ac_align.create_axis_file
       THEN /\ align_pc' = "done"
            /\ UNCHANGED <<axis_file, align_abort>>
       ELSE IF acoustical_axis = <<>>
       THEN /\ align_pc' = "raised"
            /\ align_abort' = "AttributeError"
            /\ UNCHANGED axis_file
       ELSE /\ align_pc' = "done"
            /\ axis_file' = <<acoustical_axis, t_values(ac_align)>>
            /\ UNCHANGED align_abort
    /\ UNCHANGED <<ac_align, beam, plane, found_x_coords, found_y_coords, line,
                   middle_points, acoustical_axis, line_scans>>
    /\ UNCHANGED <<scanvars, dsvars, itervars, filevars, winvars, morevars>>

NextAlign ==
    \/ acoustical_alignment
    \/ _perform_alignment
    \/ _search_alignment
    \/ \E raises \in {"", "x", "y"} : _search_alignment_while(raises)
    \/ _search_alignment_return
    \/ _calculate_acoustical_axis
    \/ _save_acoustical_axis_to_excel

SpecAlign == InitAlign /\ [][NextAlign]_vars

(***************************************************************************)
(* C17, C18: the search for the beam centre in one plane.                  *)
(***************************************************************************)
RECURSIVE Pow(_, _)
Pow(b, e) == IF e = 0 THEN 1 ELSE b * Pow(b, e - 1)

\* the number of reductions made before turn i of the while loop
Reductions(p, i) == Cardinality({j \in 0..(i - 1) : j % (p.max_red_iter - 1) = 0})

\* the line of turn i is no longer than twice the threshold
ShortLine(p, i) ==
    p.init_line_len * Pow(p.reduction_factor[1], Reductions(p, i))
        <= 2 * p.init_threshold * Pow(p.reduction_factor[2], Reductions(p, i))

\* the number of turns after which the line is that short
IterationCeiling(p) ==
    IF p.max_red_iter = 1 THEN 1
    ELSE 1 + CHOOSE i \in 0..64 : ShortLine(p, i) /\ \A j \in 0..(i - 1) : ~ShortLine(p, j)

\* C17: for a stationary beam, a threshold above 0 and a reduction factor
\* between 0 and 1, the while loop of _search_alignment makes a bounded number
\* of turns: no more than it takes the line to shrink to twice the threshold,
\* since an estimate is never further than half a line from the one before.
C17_SearchIsBounded ==
    /\ ac_align.init_threshold > 0
    /\ 0 < ac_align.reduction_factor[1]
    /\ ac_align.reduction_factor[1] < ac_align.reduction_factor[2]
    /\ found_x_coords # <<>>
    => /\ Len(found_x_coords) - 2 <= IterationCeiling(ac_align)
       /\ Len(found_y_coords) <= Len(found_x_coords)

C17_Witness ==
    /\ align_pc = "for"
    /\ plane = 2
    /\ Len(found_x_coords) - 2 >= 2
    /\ ac_align.max_red_iter > 1

\* the centre of the beam lies inside the first line of the search
CentreInsideInitialLine ==
    \A axis \in 1..2 :
        2 * Abs(beam.centre[axis] - ac_align.coord_zero[axis]) < ac_align.init_line_len

\* C18: when _search_alignment returns for a stationary, symmetric beam with
\* one peak whose centre lies inside the first line of the search, the x and y
\* it returns are within the threshold of the centre.
C18_EstimateWithinThreshold ==
    CentreInsideInitialLine =>
        \A idx \in 1..Len(middle_points) :
            idx < plane =>
                \A axis \in 1..2 :
                    Abs(middle_points[idx][axis] - beam.centre[axis])
                        <= ac_align.init_threshold

(***************************************************************************)
(* C19: _calculate_acoustical_axis called with any list of middle points,  *)
(* on an object that has or has not computed an axis before.               *)
(***************************************************************************)
MiddlePointLists(p) ==
    LET z == _calculate_z_coords(p)
        xy == {<<p.coord_zero[1] + dx, p.coord_zero[2] + dy>> : dx \in {-1, 0}, dy \in {-1, 0}}
    IN  {<<>>}
        \cup {<<<<c[1], c[2], z[1]>>>> : c \in xy}
        \cup {<<<<c[1], c[2], z[1]>>, <<d[1], d[2], z[2]>>>> : c \in xy, d \in xy}

\* the axis of an alignment made earlier with the same object
EarlierAxis == <<<<<<0, 0, -40>>, 1>>, <<0, 0, 1>>>>

InitAxis ==
    /\ ScanInit /\ ds_sent = <<>> /\ IterIdle /\ FilesIdle /\ WindowIdle /\ MoreIdle
    /\ align_pc = "axis"
    /\ ac_align \in AlignParams
    /\ beam = [centre |-> <<0, 0>>, peak |-> 0, floor |-> 0]
    /\ plane = 0
    /\ found_x_coords = <<>>
    /\ found_y_coords = <<>>
    /\ line = [length |-> 0, step_size |-> 0, ncol |-> 0]
    /\ middle_points \in MiddlePointLists(ac_align)
    /\ acoustical_axis \in {<<>>, EarlierAxis}
    /\ axis_file = <<>>
    /\ align_abort = ""
    /\ line_scans = <<>>

NextAxis ==
    \/ _calculate_acoustical_axis
    \/ _save_acoustical_axis_to_excel

SpecAxis == InitAxis /\ [][NextAxis]_vars

int(a, b) == IF a >= 0 THEN a \div b ELSE -((-a) \div b)

\* np.linalg.norm(v) of a vector along one axis
norm(v) == Abs(v[1]) + Abs(v[2]) + Abs(v[3])

_init_processing(begus, endus, adjust, fs) ==
    LET begn == int(begus * fs, 3)
        endn == int(endus * fs, 3)
    IN  [adjust |-> adjust, row_pixel_us |-> 0, begus |-> begus, endus |-> endus,
         begn |-> begn, endn |-> endn, npoints |-> endn - begn]

\* the end of the window taken from endus shifted like begus
_adjust_beg_to_endus(p, fs, k) ==
    <<int((p.begus + p.adjust * k * p.row_pixel_us) * fs, 3),
      int((p.endus + p.adjust * k * p.row_pixel_us) * fs, 3)>>

_adjust_beg(p, fs, k) ==
    LET newbegus == p.begus + p.adjust * k * p.row_pixel_us
        begn == int(newbegus * fs, 3)
        endn == begn + p.npoints
    IN  <<begn, endn>>

RowVectors == {<<0, 0, 0>>, <<0, 1, 0>>, <<0, 0, 2>>, <<-3, 0, 0>>}

InitWindow ==
    /\ ScanInit /\ ds_sent = <<>> /\ IterIdle /\ FilesIdle /\ AlignIdle /\ MoreIdle
    /\ proces = [adjust |-> 0, row_pixel_us |-> 0, begus |-> 0, endus |-> 0,
                 begn |-> 0, endn |-> 0, npoints |-> 0]
    /\ pico_sampling_freq \in {1, 2, 5}
    /\ col_pc = "init"
    /\ windows = <<>>

\* proces_param = _init_processing(begus, endus, adjust)
init_processing(begus, endus, adjust) ==
    /\ col_pc = "init"
    /\ proces' = _init_processing(begus, endus, adjust, pico_sampling_freq)
    /\ col_pc' = "grid"
    /\ UNCHANGED <<pico_sampling_freq, windows>>
    /\ UNCHANGED <<scanvars, dsvars, itervars, filevars, alignvars, morevars>>

\* _init_grid: the time the wave takes over one vect_row
init_grid_row_pixel(vect_row) ==
    /\ col_pc = "grid"
    /\ proces' = [proces EXCEPT !.row_pixel_us = 2 * norm(vect_row)]
    /\ col_pc' = "scan"
    /\ UNCHANGED <<pico_sampling_freq, windows>>
    /\ UNCHANGED <<scanvars, dsvars, itervars, filevars, alignvars, morevars>>

\* _scan_grid at a point of column k: the window the waveform is processed with
scan_grid_window(k) ==
    /\ col_pc = "scan"
    /\ Len(windows) < MaxPts
    /\ proces' = IF proces.adjust # 0
                 THEN [proces EXCEPT !.begn = _adjust_beg(proces, pico_sampling_freq, k)[1],
                                     !.endn = _adjust_beg(proces, pico_sampling_freq, k)[2]]
                 ELSE proces
    /\ windows' = Append(windows, [k |-> k, beg |-> proces'.begn, end |-> proces'.endn])
    /\ UNCHANGED <<pico_sampling_freq, col_pc>>
    /\ UNCHANGED <<scanvars, dsvars, itervars, filevars, alignvars, morevars>>

NextWindow ==
    \/ \E begus \in {0, 3, 4}, endus \in {6, 10}, adjust \in {-1, 0, 1} :
          init_processing(begus, endus, adjust)
    \/ \E vect_row \in RowVectors : init_grid_row_pixel(vect_row)
    \/ \E k \in 0..(MaxDim - 1) : scan_grid_window(k)

SpecWindow == InitWindow /\ [][NextWindow]_vars

\* C20: for every column k and adjust in {-1, 0, +1} the window _adjust_beg
\* returns is npoints long, and so is the window every point was processed
\* with; with adjust = 0 every point was processed with the window configured
\* at the start, which is also what _adjust_beg would return.
C20_WindowKeepsItsLength ==
    col_pc = "scan" =>
        /\ \A k \in 0..MaxDim :
              LET w == _adjust_beg(proces, pico_sampling_freq, k)
              IN  /\ w[2] - w[1] = proces.npoints
                  /\ proces.adjust = 0 =>
                        w = <<int(proces.begus * pico_sampling_freq, 3),
                              int(proces.endus * pico_sampling_freq, 3)>>
        /\ \A n \in 1..Len(windows) :
              /\ windows[n].end - windows[n].beg = proces.npoints
              /\ proces.adjust = 0 =>
                    /\ windows[n].beg = int(proces.begus * pico_sampling_freq, 3)
                    /\ windows[n].end = int(proces.endus * pico_sampling_freq, 3)

C20_Witness ==
    /\ col_pc = "scan"
    /\ proces.adjust = -1
    /\ Len(windows) >= 2
    /\ \E n \in 1..Len(windows) :
          /\ windows[n].k > 0
          /\ windows[n].beg < 0
          /\ windows[n].beg # int(proces.begus * pico_sampling_freq, 3)

(***************************************************************************)
(* C21: _process_data applied to a sampled sine.  The sine has 4 samples a *)
(* period, like eiwt; its phase is one of 0, pi/2, pi, -pi/2, written as   *)
(* the direction <<cos phi, sin phi>>.                                     *)
(***************************************************************************)
MaxAmpl == 6
MaxPeriods == 3

\* A * cos(w * t[n] + phi) = A * (cos(wt) cos(phi) - sin(wt) sin(phi))
Sine(w) ==
    [n \in 1..(4 * w.periods) |->
        w.ampl * (eiwt(n - 1)[1] * w.phi[1] - eiwt(n - 1)[2] * w.phi[2])]

InitPhasor ==
    /\ ScanInit /\ ds_sent = <<>> /\ IterIdle /\ FilesIdle /\ AlignIdle /\ WindowIdle
    /\ BoxIdle /\ EquipIdle
    /\ wave \in [ampl : 1..MaxAmpl,
                 phi : {<<1, 0>>, <<0, 1>>, <<-1, 0>>, <<0, -1>>},
                 periods : 1..MaxPeriods]
    /\ signal_w = <<>>
    /\ phasor_pc = "read"
    /\ ampl_phase = <<>>

\* signal_a = readVolts()[0]: the scope hands over the sine
read_sine ==
    /\ phasor_pc = "read"
    /\ signal_w' = Sine(wave)
    /\ phasor_pc' = "process"
    /\ UNCHANGED <<wave, ampl_phase>>
    /\ UNCHANGED <<scanvars, dsvars, itervars, filevars, alignvars, winvars, boxvars, equipvars>>

\* a, p = _process_data(beg, end) over the whole waveform
process_sine ==
    /\ phasor_pc = "process"
    /\ ampl_phase' = _process_data(signal_w, 0, Len(signal_w))
    /\ phasor_pc' = "done"
    /\ UNCHANGED <<wave, signal_w>>
    /\ UNCHANGED <<scanvars, dsvars, itervars, filevars, alignvars, winvars, boxvars, equipvars>>

NextPhasor == read_sine \/ process_sine

SpecPhasor == InitPhasor /\ [][NextPhasor]_vars

\* C21: for A*cos(2*pi*f*t + phi) sampled over whole periods, _process_data
\* over the full window returns the amplitude A (2|phasor|/npoints, never
\* negative) and the phase phi.
C21_RecoversAmplitudeAndPhase ==
    phasor_pc = "done" =>
        /\ ampl_phase[1][1] = wave.ampl * wave.ampl * ampl_phase[1][2]
        /\ ampl_phase[1][2] > 0
        /\ ampl_phase[2] = wave.phi

(***************************************************************************)
(* C22: what the scope and the driving system are asked to do at a point.  *)
(***************************************************************************)
IsScopeOp(op) == op \in {"arm", "exec", "wait", "read"}

\* C22: at every point the scope and driving system see k times (arm,
\* execute, wait), 1 <= k <= 6, and then exactly one read of the waveform:
\* no read between two attempts and never a second read at the point.
C22_OneReadAfterLastWait ==
    LET acq == SelectSeq(ops, IsScopeOp)
        k == Count(acq, "wait")
    IN  /\ Count(acq, "read") <= 1
        /\ pc = "store" =>
              /\ 1 <= k /\ k <= 6
              /\ Len(acq) = 3 * k + 1
              /\ \A n \in 1..(3 * k) :
                    acq[n] = CASE n % 3 = 1 -> "arm" [] n % 3 = 2 -> "exec" [] OTHER -> "wait"
              /\ acq[3 * k + 1] = "read"

(***************************************************************************)
(* C23: the order of the steps at a point of _scan_grid.                   *)
(***************************************************************************)
\* the rows of the coordinate CSV below its header
CsvRows == Len(SelectSeq(outputCoord, LAMBDA row : ~IsHeader(row)))

\* C23: at every point the scan first moves, then acquires and reduces, then
\* writes the phasor into the field volume, then appends the CSV row of the
\* point; nothing of the next point starts before the point is complete.
C23_StepsInOrder ==
    entry = "acquire_sequence" =>
        \* nothing is armed before the move of the point was made
        /\ Count(ops, "arm") > 0 => ops[1] = "move"
        \* a phasor is written only for a waveform that was logged
        /\ Len(written) <= Len(outputRAW)
        \* the CSV row of a point follows the write of its phasor
        /\ CsvRows <= Len(written)
        \* the next point is not begun before the row of this one is there
        /\ pc \in {"move", "acquire", "read", "store"} => CsvRows = Len(written)

(***************************************************************************)
(* A grid given by parameters (CharacSequence.set_sequence) and the scan   *)
(* of it by acquire_sequence.                                              *)
(***************************************************************************)
\* the axis a direction names: 1 = x, 2 = y, 3 = z
DirAxis(direction) ==
    CASE direction \in {"+x", "-x"} -> 1
      [] direction \in {"+y", "-y"} -> 2
      [] direction \in {"+z", "-z"} -> 3

DirSign(direction) == IF direction \in {"+x", "+y", "+z"} THEN 1 ELSE -1

_set_dir_vector(direction, step_sizes) ==
    [a \in 1..3 |-> IF a = DirAxis(direction)
                    THEN DirSign(direction) * step_sizes[a] ELSE 0]

_calculate_n(direction, max_values, step_sizes) ==
    LET a == DirAxis(direction)
    IN  IF step_sizes[a] # 0
        THEN (max_values[2 * a - 1] + max_values[2 * a]) \div step_sizes[a] + 1
        ELSE 0

\* the start on the axes the directions name; the others stay 0
_set_start_coord_vector(zero, directions, dimensions) ==
    [a \in 1..3 |->
        IF \E n \in 1..3 : DirAxis(directions[n]) = a
        THEN LET n == CHOOSE n \in 1..3 :
                        /\ DirAxis(directions[n]) = a
                        /\ \A later \in (n + 1)..3 : DirAxis(directions[later]) # a
             IN  IF DirSign(directions[n]) = 1
                 THEN zero[a] - dimensions[2 * a]
                 ELSE zero[a] + dimensions[2 * a - 1]
        ELSE 0]

_calculate_n_vector(directions, dimensions, step_sizes) ==
    LET nrow == _calculate_n(directions[3], dimensions, step_sizes)
        ncol == _calculate_n(directions[2], dimensions, step_sizes)
        nslices == _calculate_n(directions[1], dimensions, step_sizes)
    IN  <<nslices, nrow, ncol>>

\* CharacSequence.set_sequence for 'Parameters on the right'
set_sequence(row) ==
    [use_coord_excel |-> FALSE, path_coord_excel |-> "none",
     coord_start |-> _set_start_coord_vector(coord_zero, row.directions, row.dimensions),
     nslices_nrow_ncol |-> _calculate_n_vector(row.directions, row.dimensions,
                                               row.step_sizes),
     vect_sl |-> _set_dir_vector(row.directions[1], row.step_sizes),
     vect_row |-> _set_dir_vector(row.directions[2], row.step_sizes),
     vect_col |-> _set_dir_vector(row.directions[3], row.step_sizes)]

\* rows of the protocol file: lines and small planes in x and y around the
\* relative zero, one plane in z
ProtocolRows ==
    [directions : {<<"+z", "+y", "+x">>, <<"+z", "-x", "+y">>, <<"-z", "-y", "-x">>},
     dimensions : {<<0, 0, 0, 0, 0, 0>>, <<0, 0, 0, 1, 0, 0>>, <<1, 0, 0, 0, 0, 0>>,
                   <<1, 1, 0, 0, 0, 0>>, <<0, 1, 1, 0, 0, 0>>},
     step_sizes : {<<1, 1, 1>>, <<2, 1, 1>>}]

InitBox ==
    /\ ScanInit /\ ds_sent = <<>> /\ IterIdle /\ FilesIdle /\ AlignIdle /\ WindowIdle
    /\ PhasorIdle /\ EquipIdle
    /\ seq_row \in ProtocolRows
    /\ sequence_list = <<>>

generate_sequence_list ==
    /\ sequence_list = <<>>
    /\ sequence_list' = <<set_sequence(seq_row)>>
    /\ UNCHANGED <<seq_row, phvars, equipvars>>
    /\ UNCHANGED <<scanvars, dsvars, itervars, filevars, alignvars, winvars>>

NextBox ==
    \/ generate_sequence_list
    \/ sequence_list # <<>> /\ acquire_sequence(sequence_list[1])
    \/ _calculate_new_coord_and_save
    \/ \E ok \in BOOLEAN, done \in BOOLEAN : move(ok, done)
    \/ _acquire_data
    \/ _scan_grid_point
    \/ _scan_grid_tofile

SpecBox == InitBox /\ [][NextBox]_vars

\* the box around the relative zero the row of the protocol file asks for
InsideBox(xyz) ==
    \A a \in 1..3 :
        /\ coord_zero[a] - seq_row.dimensions[2 * a] <= xyz[a]
        /\ xyz[a] <= coord_zero[a] + seq_row.dimensions[2 * a - 1]

\* C24: every coordinate the scan of a parameter grid moves to lies inside
\* the box [coord_zero - max_minus, coord_zero + max_plus], the number of
\* rows and of columns being the count of the direction the row and the
\* column vector step along.
C24_MovesInsideBox ==
    /\ \A n \in 1..Len(moves) : InsideBox(moves[n])
    /\ entry = "acquire_sequence" =>
          /\ grid_param.nrow = _calculate_n(seq_row.directions[2], seq_row.dimensions,
                                            seq_row.step_sizes)
          /\ grid_param.ncol = _calculate_n(seq_row.directions[3], seq_row.dimensions,
                                            seq_row.step_sizes)

(***************************************************************************)
(* C25: when the line of the search is made shorter.                       *)
(***************************************************************************)
\* C25: the line length and step of _search_alignment are multiplied by the
\* reduction factor once every max_red_iter - 1 turns: the first
\* max_red_iter - 1 turns use the initial line, every later stretch of
\* max_red_iter - 1 turns uses one line, and the number of points of a line
\* is round(length / step).
C25_ReductionSchedule ==
    ac_align.max_red_iter > 1 =>
        \A n \in 1..Len(line_scans) :
            LET scan == line_scans[n]
                r == scan.iteration \div (ac_align.max_red_iter - 1)
                num == Pow(ac_align.reduction_factor[1], r)
                den == Pow(ac_align.reduction_factor[2], r)
            IN  /\ scan.length * den = ac_align.init_line_len * num
                /\ scan.step_size * den = ac_align.init_line_step * num
                /\ scan.ncol = round(scan.length, scan.step_size)

(***************************************************************************)
(* C26: which point of a line scan is taken as the centre.                 *)
(***************************************************************************)
\* the first index at which the cumulative sum is at least half the total
FirstReachingHalf(v) ==
    CHOOSE k \in 1..Len(v) :
        /\ 2 * cumsum(v, k) >= cumsum(v, Len(v))
        /\ \A m \in 1..(k - 1) : 2 * cumsum(v, m) < cumsum(v, Len(v))

\* C26: the estimate of a line scan is the coordinate of the first point, in
\* scan order, at which the cumulative sum of the maxima reaches half of the
\* total over the line.
C26_FirstPointReachingHalf ==
    \A n \in 1..Len(line_scans) :
        LET scan == line_scans[n]
            axis == IF scan.direction = "x" THEN 1 ELSE 2
            max_voltages == [k \in 1..Len(scan.dests) |-> Profile(beam, scan.dests[k])]
        IN  scan.found = scan.dests[FirstReachingHalf(max_voltages)][axis]

(***************************************************************************)
(* C27: where the points of a line scan lie.                               *)
(***************************************************************************)
\* C27: a line scan runs over one slice and one row, along x (or y) with the
\* current step, from the current estimate - L/2 to the current estimate +
\* L/2, its points lying symmetrically around the estimate; the other lateral
\* coordinate is the current estimate and z is that of the plane.
C27_LineCentredOnEstimate ==
    \A n \in 1..Len(line_scans) :
        LET scan == line_scans[n]
            axis == IF scan.direction = "x" THEN 1 ELSE 2
            other == 3 - axis
            last == Len(scan.dests)
        IN  /\ last = scan.ncol
            /\ \A k \in 1..last :
                  /\ scan.dests[k][other] = scan.centre[other]
                  /\ scan.dests[k][3] = scan.plane
                  /\ k > 1 => scan.dests[k][axis] - scan.dests[k - 1][axis] = scan.step_size
            /\ last > 0 =>
                  /\ 2 * scan.dests[1][axis] = 2 * scan.centre[axis] - scan.length
                  /\ 2 * scan.dests[last][axis] = 2 * scan.centre[axis] + scan.length

(***************************************************************************)
(* C28: every reported plane centre comes from a measurement.              *)
(***************************************************************************)
ScansOfPlane(idx, direction) ==
    {n \in 1..Len(line_scans) :
        /\ line_scans[n].plane = _calculate_z_coords(ac_align)[idx]
        /\ line_scans[n].direction = direction}

\* C28: for every plane of which _search_alignment has returned the centre,
\* at least one x line and one y line have been scanned in that plane, and the
\* centre saved is the result of the last x scan and the last y scan there.
C28_CentreIsMeasured ==
    \A idx \in 1..Len(_calculate_z_coords(ac_align)) :
        idx < plane =>
            /\ ScansOfPlane(idx, "x") # {}
            /\ ScansOfPlane(idx, "y") # {}
            /\ \E nx \in ScansOfPlane(idx, "x"), ny \in ScansOfPlane(idx, "y") :
                  /\ middle_points[idx][1] = line_scans[nx].found
                  /\ middle_points[idx][2] = line_scans[ny].found

(***************************************************************************)
(* C29: when no file name is possible.                                     *)
(***************************************************************************)
\* C29: a selection ends in the "no possible file name" OSError only when the
\* requested name and every candidate name_00 .. name_<imax> exist already;
\* whenever one of these names is free, a name is selected and that name is a
\* free one.
C29_RaisesOnlyWhenAllTaken ==
    \A n \in 1..Len(selections) :
        LET sel == selections[n]
        IN  /\ sel.name = OSError =>
                  (Plain \in sel.raws /\ FreeCounters(sel.raws) = {})
            /\ (Plain \notin sel.raws \/ FreeCounters(sel.raws) # {}) =>
                  (sel.name # OSError /\ sel.name \notin sel.raws)

(***************************************************************************)
(* The equipment: connected by the constructor of Acquisition, released    *)
(* by close_all.  A device is "None", "created" (the object exists, no     *)
(* connection), "connected" or "disconnected".  The programs are main.py   *)
(* with is_testing False ("main") or True ("main_test"), and acquire of    *)
(* the first version of the pipeline ("legacy").                           *)
(***************************************************************************)
Devices == {"ds", "scope", "motors"}

\* the switches of main.py for TestAcquisition
init_motor == TRUE
init_ds == TRUE
init_pico == FALSE

\* the order in which the constructor (for "legacy": the try block of
\* acquire) initialises the equipment
EquipmentSteps(program) ==
    IF program = "main_test"
    THEN SelectSeq(<<"motors", "ds", "scope">>,
                   LAMBDA d : \/ d = "motors" /\ init_motor
                              \/ d = "ds" /\ init_ds
                              \/ d = "scope" /\ init_pico)
    ELSE <<"ds", "scope", "motors">>

\* the first version creates the motors and the scope object in __init__
EquipmentAtStart(program) ==
    IF program = "legacy"
    THEN [ds |-> "None", scope |-> "created", motors |-> "created"]
    ELSE [ds |-> "None", scope |-> "None", motors |-> "None"]

InitEquip ==
    /\ ScanInit /\ ds_sent = <<>> /\ IterIdle /\ FilesIdle /\ AlignIdle /\ WindowIdle
    /\ PhasorIdle /\ BoxIdle
    /\ main_cfg \in [program : {"main", "main_test", "legacy"}, manufact_known : BOOLEAN]
    /\ equipment = EquipmentAtStart(main_cfg.program)
    /\ main_pc = "init"
    /\ main_steps = EquipmentSteps(main_cfg.program)
    /\ main_todo \in 0..MaxSeqs
    /\ main_exc = ""
    /\ closed = "no"

\* an initialisation step is over: the next one, or the try block of main
StepDone ==
    /\ main_steps' = Tail(main_steps)
    /\ main_pc' = IF Tail(main_steps) = <<>> THEN "try" ELSE "init"
    /\ UNCHANGED <<main_exc, closed>>

\* an initialisation step raises: in main.py the constructor runs before the
\* try, so the exception leaves main; the first version initialises inside
\* the try, so its finally runs
StepRaises(exc) ==
    /\ main_exc' = exc
    /\ main_pc' = IF main_cfg.program = "legacy" THEN "finally" ELSE "ended"
    /\ UNCHANGED <<main_steps, closed>>

_init_ds(connects) ==
    /\ main_pc = "init" /\ Head(main_steps) = "ds"
    /\ IF ~main_cfg.manufact_known
       THEN UNCHANGED equipment /\ StepDone
       ELSE IF connects
       THEN equipment' = [equipment EXCEPT !.ds = "connected"] /\ StepDone
       ELSE equipment' = [equipment EXCEPT !.ds = "created"] /\ StepRaises("ConnectionError")
    /\ UNCHANGED <<main_cfg, main_todo>>
    /\ UNCHANGED <<scanvars, dsvars, itervars, filevars, alignvars, winvars, phvars, boxvars>>

\* getScope, then openUnit in _init_scope
_init_scope(opens) ==
    /\ main_pc = "init" /\ Head(main_steps) = "scope"
    /\ IF opens
       THEN equipment' = [equipment EXCEPT !.scope = "connected"] /\ StepDone
       ELSE equipment' = [equipment EXCEPT !.scope = "created"] /\ StepRaises("PicoError")
    /\ UNCHANGED <<main_cfg, main_todo>>
    /\ UNCHANGED <<scanvars, dsvars, itervars, filevars, alignvars, winvars, phvars, boxvars>>

\* MotorsXYZ(), connect, initialize: the serial port may fail to open
\* ("connect"), or the homing may fail on an open port ("initialize")
_init_motor(outcome) ==
    /\ main_pc = "init" /\ Head(main_steps) = "motors"
    /\ IF outcome = "ok"
       THEN equipment' = [equipment EXCEPT !.motors = "connected"] /\ StepDone
       ELSE IF outcome = "connect"
       THEN equipment' = [equipment EXCEPT !.motors = "created"] /\ StepRaises("SerialException")
       ELSE equipment' = [equipment EXCEPT !.motors = "connected"] /\ StepRaises("MotorError")
    /\ UNCHANGED <<main_cfg, main_todo>>
    /\ UNCHANGED <<scanvars, dsvars, itervars, filevars, alignvars, winvars, phvars, boxvars>>

\* the try block: one sequence of the list, or move_output_data after the
\* last one; acquire_sequence sends the sequence to the driving system, which
\* fails when there is none
main_try(raises) ==
    /\ main_pc = "try"
    /\ IF raises \/ (main_todo > 0 /\ main_cfg.program # "main_test" /\ equipment.ds = "None")
       THEN /\ main_exc' = "Exception"
            /\ main_pc' = "finally"
            /\ UNCHANGED main_todo
       ELSE IF main_todo > 0
       THEN /\ main_todo' = main_todo - 1
            /\ UNCHANGED <<main_pc, main_exc>>
       ELSE /\ main_pc' = "finally"
            /\ UNCHANGED <<main_todo, main_exc>>
    /\ UNCHANGED <<equipment, main_cfg, main_steps, closed>>
    /\ UNCHANGED <<scanvars, dsvars, itervars, filevars, alignvars, winvars, phvars, boxvars>>

\* what close_all leaves of the equipment eq when the releases of the devices
\* in fails raise: the motors, then the scope, then the driving system, the
\* first exception ending the function
close_all_motors(eq, fails) ==
    IF eq.motors = "None"
    THEN [equipment |-> eq, exc |-> "AttributeError"]
    ELSE IF eq.motors = "connected"
    THEN [equipment |-> [eq EXCEPT !.motors = "disconnected"],
          exc |-> IF "motors" \in fails THEN "SerialException" ELSE ""]
    ELSE [equipment |-> eq, exc |-> ""]

close_all_scope(r, fails) ==
    IF r.exc # "" \/ r.equipment.scope = "None"
    THEN r
    ELSE IF "scope" \in fails
    THEN [r EXCEPT !.exc = "PicoError"]
    ELSE [r EXCEPT !.equipment.scope = "disconnected"]

close_all_ds(r, fails) ==
    IF r.exc # "" \/ r.equipment.ds = "None"
    THEN r
    ELSE IF "ds" \in fails
    THEN [r EXCEPT !.exc = "ConnectionError"]
    ELSE [r EXCEPT !.equipment.ds = "disconnected"]

close_all_result(eq, fails) ==
    close_all_ds(close_all_scope(close_all_motors(eq, fails), fails), fails)

\* finally: acquisition.close_all()
close_all(fails) ==
    /\ main_pc = "finally"
    /\ LET r == close_all_result(equipment, fails)
       IN  /\ equipment' = r.equipment
           /\ closed' = IF r.exc = "" THEN "returned" ELSE "raised"
           /\ main_exc' = IF r.exc = "" THEN main_exc ELSE r.exc
    /\ main_pc' = "ended"
    /\ UNCHANGED <<main_cfg, main_steps, main_todo>>
    /\ UNCHANGED <<scanvars, dsvars, itervars, filevars, alignvars, winvars, phvars, boxvars>>

NextEquip ==
    \/ \E connects \in BOOLEAN : _init_ds(connects)
    \/ \E opens \in BOOLEAN : _init_scope(opens)
    \/ \E outcome \in {"ok", "connect", "initialize"} : _init_motor(outcome)
    \/ \E raises \in BOOLEAN : main_try(raises)
    \/ \E fails \in SUBSET Devices : close_all(fails)

SpecEquip == InitEquip /\ [][NextEquip]_vars

\* C30: when the program ends, every device it has connected is disconnected:
\* after all sequences, after an exception during a scan, after a failure
\* part-way through the initialisation of the equipment, and also when
\* close_all finds a device absent or a release fails.
C30_EveryDeviceReleased ==
    main_pc = "ended" => \A d \in Devices : equipment[d] # "connected"

Next ==
    \/ \E seq \in SequenceList : acquire_sequence(seq)
    \/ _calculate_new_coord_and_save
    \/ \E ok \in BOOLEAN, done \in BOOLEAN : move(ok, done)
    \/ _acquire_data
    \/ _scan_grid_point
    \/ _scan_grid_tofile
    \/ \E protocol \in SequenceList : acquire(protocol)
    \/ scan_grid_coord
    \/ acquire_data
    \/ scan_grid_point
    \/ scan_grid_tofile
    \/ \E protocol \in IterSequences, scan \in {"Dir", "Alt"} : check_scan(protocol, scan)
    \/ scan_only
    \/ scan_only_counter

Spec == Init /\ [][Next]_vars

====
